---- MODULE Spec2Model ----
(***************************************************************************)
(* State-machine model of the coordination core of nsai-orchestrator-mcp:  *)
(*   - AgentOrchestrator.execute_plan, decompose_task, execute_parallel    *)
(*     and the parallel mode of run_orchestrator_agent                     *)
(*                                      (agents/orchestrator_agent.py)     *)
(*   - MCPServerEnhanced task registry  (mcp_server_enhanced.py)           *)
(*   - SagaOrchestrator, CircuitBreaker, DistributedLock, RateLimiter,     *)
(*     MultiLayerCache                  (core/elite_architecture.py)       *)
(* Every component has its own specification over the shared variable      *)
(* tuple; the variables of the other components stay in their constructed  *)
(* state.                                                                  *)
(***************************************************************************)
EXTENDS Integers, Sequences, FiniteSets, TLC

VARIABLES
    \* ---- AgentOrchestrator.execute_plan ----
    plan,            \* [steps : id -> [agent, dependencies], execution_order : Seq(id)]
    context,         \* dict "result_<id>" -> value, keyed here by the step id
    results,         \* dict step_id -> result record, in insertion order (resultKeys)
    resultKeys,      \* insertion order of the keys of results
    planIdx,         \* position of the for loop in execution_order
    planPc,          \* "idle" | "running" | "returned" | "raised"
    context0,        \* history: the context dict as it was handed to execute_plan
    invoked,         \* history: ids of the steps whose executor was awaited
    \* ---- MCPServerEnhanced ----
    active_tasks,    \* set of task ids that are keys of self.active_tasks
    task_history,    \* list of references to task records (task ids)
    taskRecord,      \* the record objects, by task id
    rpcPc,           \* position of each handle_rpc call
    rpcResponse,     \* what each handle_rpc call returned
    now,             \* time.time(), seconds
    cancelReturned,  \* the last cancel_task call: its id and what it returned
    historyOld,      \* number of task_history records older than the listed ones
    \* ---- SagaOrchestrator ----
    sagaSteps,       \* self.steps: per position [completed]
    completed_steps, \* self.completed_steps: list of step positions
    sagaPc,          \* position of execute(): "idle" | "loop" | "compensating"
    sagaIdx,         \* loop position in self.steps / in reversed(completed_steps)
    sagaRun,         \* number of execute() calls begun on this instance
    sagaStarted,     \* history: steps whose action() was started by this call, in order
    sagaCompleted,   \* history: steps whose action() completed in this call, in order
    compensations,   \* history: steps whose compensation() was run by this call, in order
    eventLog,        \* events appended to the event store by the current execute() call
    eventsBefore,    \* number of events appended to the event store by earlier calls
    sagaOutcome,     \* what the last execute() did: "none" | "returned" | "raised"
    sagaFailure,     \* [step, cause] of the failed action of this call, step 0 if none
    sagaRaised,      \* the step named by the raised saga failure, 0 if none
    \* ---- CircuitBreaker ----
    state,
    failure_count,
    success_count,
    last_failure_time,
    cbLock,          \* holder of self._lock, 0 when free
    callPc,          \* position of each caller inside call()
    callResult,      \* last outcome seen by each caller
    cbNow,           \* datetime.utcnow(), seconds
    consecFailures,  \* history: failures recorded since the last recorded success
    consecSuccesses, \* history: successes recorded since HALF_OPEN was entered
    callers,         \* the callers that use the breaker in this run
    \* ---- DistributedLock ----
    store,           \* redis: the value held under the lock key, Absent if there is none
    storeTtl,        \* redis: remaining time to live of the lock key
    renewPc,         \* position of each instance's _renew_lock task
    renewSlept,      \* time each renewal task has slept in asyncio.sleep
    holding,         \* instances whose acquire() returned true and that have not called release()
    lastOp,          \* history: the acquire()/release() performed by the last step, if any
    winners,         \* history: instances whose acquire returned true since the key was last absent
    \* ---- RateLimiter.check_token_bucket ----
    bucket,          \* redis: the hash under token_bucket:<key>, with its time to live
    refill_rate,     \* the refill_rate every call passes for this key
    rlNow,           \* datetime.utcnow().timestamp(), in ticks
    rlPc,            \* position of each caller: "idle" | "sent"
    rlArgNow,        \* the now each caller computed before sending the script, 0 once it returned
    rlResult,        \* what each caller's last call returned
    rlRun,           \* history: the calls evaluated since the last tick with one and the same now
    rlBase,          \* history: tokens available at the last evaluation that refilled the bucket
    rlAllowed,       \* history: calls allowed since then
    rlCallers,       \* the callers that use the limiter in this run
    \* ---- RateLimiter.check_sliding_window ----
    zset,            \* redis: the sorted set under the window key, as score -> number of members
    zsetTtl,         \* redis: remaining time to live of the window key, 0 if none is set
    swNow,           \* datetime.utcnow().timestamp(), in ticks
    swPc,            \* position of each caller: "idle" or the store command it awaits
    swArgNow,        \* the now each pending call computed
    swCount,         \* current_count of each pending call
    swResult,        \* what each caller's last call returned
    swAllowed,       \* history: timestamps of the calls that returned allowed
    swBefore,        \* history: allowed calls inside the trailing window when the call began
    swTicked,        \* history: the clock has advanced while some call was pending
    swCallers,       \* the callers that use the limiter in this run
    \* ---- MultiLayerCache ----
    l1_cache,        \* self.l1_cache: key -> value, Missing where the key is not in the dict
    access_time,     \* self.access_time: its keys, from the oldest access time to the newest
    access_count,    \* self.access_count: key -> count, 0 where the key is not in the dict
    l2,              \* redis: cache:<key> -> [text, ttl], NoL2Entry where there is no such key
    cachePc,         \* the operation each client has in flight and its position
    cacheLast,       \* history: the operation that returned last, if nothing happened since
    ttlElapsed,      \* history: the ttl of the last set of the key has run out in the store
    cacheCallers,    \* the clients that use the cache in this run
    \* ---- AgentOrchestrator.decompose_task ----
    llmReply,        \* what call_claude does for this call
    decomposed,      \* the plan decompose_task returned
    decomposePc,     \* "idle" | "called" | "returned"
    \* ---- run_orchestrator_agent, parallel mode ----
    parPlan,         \* plan
    parPc,           \* "idle" | "called" | "next_group" | "running" | "returned" | "raised"
    parGroups,       \* parallel_groups
    parIdx,          \* position of the group loop in parallel_groups
    parStatus,       \* per step of the current group: "pending" | "running" | "done"
    parGroupResults, \* results of the current group, in the order of its steps
    parAllResults,   \* all_results
    parContext,      \* context
    parContext0      \* history: context as it was given

varsPlan  == <<plan, context, results, resultKeys, planIdx, planPc, context0,
               invoked>>
varsTasks == <<active_tasks, task_history, taskRecord, rpcPc, rpcResponse, now,
               cancelReturned, historyOld>>
varsSaga  == <<sagaSteps, completed_steps, sagaPc, sagaIdx, sagaRun, sagaStarted,
               sagaCompleted, compensations, eventLog, eventsBefore, sagaOutcome, sagaFailure,
               sagaRaised>>
varsCB    == <<state, failure_count, success_count, last_failure_time, cbLock,
               callPc, callResult, cbNow, consecFailures, consecSuccesses, callers>>
varsLock  == <<store, storeTtl, renewPc, renewSlept, holding, lastOp, winners>>
varsBucket == <<bucket, refill_rate, rlNow, rlPc, rlArgNow, rlResult, rlRun,
                rlBase, rlAllowed, rlCallers>>
varsWindow == <<zset, zsetTtl, swNow, swPc, swArgNow, swCount, swResult, swAllowed,
                swBefore, swTicked, swCallers>>
varsCache == <<l1_cache, access_time, access_count, l2, cachePc, cacheLast, ttlElapsed,
               cacheCallers>>
varsDecompose == <<llmReply, decomposed, decomposePc>>
varsParallel == <<parPlan, parPc, parGroups, parIdx, parStatus, parGroupResults,
                  parAllResults, parContext, parContext0>>
vars      == <<varsPlan, varsTasks, varsSaga, varsCB, varsLock, varsBucket,
               varsWindow, varsCache, varsDecompose, varsParallel>>

\* What an action of one component leaves alone: the variables of all the others
NotPlan   == <<varsTasks, varsSaga, varsCB, varsLock, varsBucket, varsWindow,
               varsCache, varsDecompose, varsParallel>>
NotTasks  == <<varsPlan, varsSaga, varsCB, varsLock, varsBucket, varsWindow,
               varsCache, varsDecompose, varsParallel>>
NotSaga   == <<varsPlan, varsTasks, varsCB, varsLock, varsBucket, varsWindow,
               varsCache, varsDecompose, varsParallel>>
NotCB     == <<varsPlan, varsTasks, varsSaga, varsLock, varsBucket, varsWindow,
               varsCache, varsDecompose, varsParallel>>
NotLock   == <<varsPlan, varsTasks, varsSaga, varsCB, varsBucket, varsWindow,
               varsCache, varsDecompose, varsParallel>>
NotBucket == <<varsPlan, varsTasks, varsSaga, varsCB, varsLock, varsWindow,
               varsCache, varsDecompose, varsParallel>>
NotWindow == <<varsPlan, varsTasks, varsSaga, varsCB, varsLock, varsBucket,
               varsCache, varsDecompose, varsParallel>>
NotCache == <<varsPlan, varsTasks, varsSaga, varsCB, varsLock, varsBucket,
              varsWindow, varsDecompose, varsParallel>>
NotDecompose == <<varsPlan, varsTasks, varsSaga, varsCB, varsLock, varsBucket,
                  varsWindow, varsCache, varsParallel>>
NotParallel == <<varsPlan, varsTasks, varsSaga, varsCB, varsLock, varsBucket,
                 varsWindow, varsCache, varsDecompose>>

(***************************************************************************)
(* Bounds                                                                  *)
(***************************************************************************)
MaxSteps == 3
MaxTasks == 2
MaxTicks == 1
MaxSagaSteps == 3
MaxSagaRuns == 2
MaxCallers == 2
MaxCbTime == 6

\* CircuitBreaker constructor parameters used in the runs
failure_threshold == 3
recovery_timeout == 2
success_threshold == 2

MaxInstances == 2

\* DistributedLock constructor parameter used in the runs, in clock ticks
timeout == 2

\* Values used for absent things.
NoValue == "none"

\* f with key k bound to v (dict assignment d[k] = v)
DictSet(f, k, v) == [x \in DOMAIN f \cup {k} |-> IF x = k THEN v ELSE f[x]]

\* dict.update with several keys taken from g
DictUpdate(f, g) == [x \in DOMAIN f \cup DOMAIN g |-> IF x \in DOMAIN g THEN g[x] ELSE f[x]]

EmptyDict == [x \in {} |-> NoValue]

(***************************************************************************)
(* AgentOrchestrator (agents/orchestrator_agent.py)                        *)
(***************************************************************************)
\* self.agents: the registered executors
agents == {"claude", "codex", "memory"}

\* agent names a plan may carry: registered ones and one that is not
AgentNames == {"claude", "unknown_agent"}

\* values an executor may return
Outputs == {"out_a", "out_b"}

\* The plans given to execute_plan: n steps whose execution_order lists every
\* step id once with each id after its dependencies (the Plan invariant).
\* Step ids are names, so the order is taken to be 1, 2, ..., n.
Plans ==
    UNION {
      { [steps |-> st, execution_order |-> [i \in 1..n |-> i]] :
          st \in { f \in [1..n -> [agent : AgentNames, dependencies : SUBSET (1..n)]] :
                     \A i \in 1..n : f[i].dependencies \subseteq 1..(i - 1) } }
      : n \in 1..MaxSteps }

\* execute_step, the executor having returned value v
StepCompleted(id, step, v) ==
    [step_id |-> id, agent |-> step.agent, result |-> v, status |-> "completed"]

\* execute_step, the executor having raised
StepError(id, step) ==
    [step_id |-> id, agent |-> step.agent, status |-> "error", error |-> "raised"]

\* execute_step for an agent name that is not registered
StepUnknownAgent(id, step) ==
    [step_id |-> id, status |-> "error", error |-> "Unknown agent"]

\* The results execute_step can produce for a step
execute_step(id, step) ==
    IF step.agent \notin agents
    THEN {StepUnknownAgent(id, step)}
    ELSE {StepCompleted(id, step, v) : v \in Outputs} \cup {StepError(id, step)}

\* The dependency loop of execute_plan: dependencies already in results whose
\* record has no "result" key make results[dep_id]["result"] raise KeyError.
DepsInResults(step) == step.dependencies \cap DOMAIN results
DepsRaising(step)   == {d \in DepsInResults(step) : "result" \notin DOMAIN results[d]}

MergeDeps(ctx, deps) ==
    [k \in DOMAIN ctx \cup deps |-> IF k \in deps THEN results[k].result ELSE ctx[k]]

\* lines 159-160: the step's result is put into the context if it completed
PublishResultAlways(ctx, id, result) ==
    DictSet(ctx, id, IF "result" \in DOMAIN result THEN result.result ELSE "none")
PublishResult(ctx, id, result) ==
    IF result.status = "completed" THEN DictSet(ctx, id, result.result) ELSE ctx

PlanInit ==
    /\ plan \in Plans
    /\ context \in {EmptyDict, [k \in {1} |-> "stale"]}
    /\ results = EmptyDict
    /\ resultKeys = <<>>
    /\ planIdx = 1
    /\ planPc = "running"
    /\ context0 = context
    /\ invoked = {}

PlanIdle ==
    /\ plan = [steps |-> <<>>, execution_order |-> <<>>]
    /\ context = EmptyDict
    /\ results = EmptyDict
    /\ resultKeys = <<>>
    /\ planIdx = 1
    /\ planPc = "idle"
    /\ context0 = EmptyDict
    /\ invoked = {}

\* One iteration of the for loop of execute_plan whose dependency merge
\* raises KeyError: the exception leaves execute_plan.
ExecutePlanDepKeyError ==
    /\ planPc = "running"
    /\ planIdx <= Len(plan.execution_order)
    /\ LET id   == plan.execution_order[planIdx]
           step == plan.steps[id]
       IN /\ DepsRaising(step) # {}
          /\ \E merged \in SUBSET (DepsInResults(step) \ DepsRaising(step)) :
                context' = MergeDeps(context, merged)
    /\ planPc' = "raised"
    /\ UNCHANGED <<plan, results, resultKeys, planIdx, context0, invoked>>
    /\ UNCHANGED NotPlan

\* One iteration of the for loop of execute_plan that runs the step.
ExecutePlanStep ==
    /\ planPc = "running"
    /\ planIdx <= Len(plan.execution_order)
    /\ LET id   == plan.execution_order[planIdx]
           step == plan.steps[id]
       IN /\ DepsRaising(step) = {}
          /\ \E result \in execute_step(id, step) :
               /\ results' = DictSet(results, id, result)
               /\ resultKeys' = Append(resultKeys, id)
               /\ context' = PublishResult(MergeDeps(context, DepsInResults(step)),
                                           id, result)
          /\ invoked' = IF step.agent \in agents THEN invoked \cup {id} ELSE invoked
    /\ planIdx' = planIdx + 1
    /\ UNCHANGED <<plan, planPc, context0>>
    /\ UNCHANGED NotPlan

\* The loop is exhausted: return list(results.values()).
ExecutePlanReturn ==
    /\ planPc = "running"
    /\ planIdx > Len(plan.execution_order)
    /\ planPc' = "returned"
    /\ UNCHANGED <<plan, context, results, resultKeys, planIdx, context0, invoked>>
    /\ UNCHANGED NotPlan

PlanNext ==
    \/ ExecutePlanDepKeyError
    \/ ExecutePlanStep
    \/ ExecutePlanReturn

(***************************************************************************)
(* MCPServerEnhanced task registry (mcp_server_enhanced.py)                *)
(***************************************************************************)
\* Age above which the sweeper cancels an active task, seconds.
TASK_TIMEOUT == 300

\* The clock is observed every TickSeconds seconds: a task started at one
\* observation is older than the ceiling at the next.
TickSeconds == TASK_TIMEOUT + 1

\* Number of history records kept by a sweep.
HISTORY_CAP == 1000

TaskIds == 1..MaxTasks

\* self.agent_manager.agents
managerAgents == {"claude", "codex"}

\* payloads: "method" and params["agent"] are either given or missing
Payloads == [method : {"execute", NoValue}, agent : {"claude", "unknown_agent", NoValue}]

\* a handle_rpc call that has not returned has no response
NoResponse == [task_id |-> 0]

Terminal == {"completed", "failed", "cancelled"}

\* task ids are fresh uuid4 values: the next unused one
NextTaskId == CHOOSE t \in TaskIds : rpcPc[t] = "new" /\ \A u \in TaskIds : rpcPc[u] = "new" => t <= u

duration_ms(start) == (now - start) * 1000

NewTaskRecord(t, payload) ==
    [task_id |-> t, method |-> payload.method, agent_type |-> payload.agent,
     start_time |-> now, status |-> "running"]

CompletedUpdate(rec) ==
    [status |-> "completed", result |-> "result", duration_ms |-> duration_ms(rec.start_time),
     end_time |-> now]

FailedUpdate(rec) ==
    [status |-> "failed", error |-> "error", duration_ms |-> duration_ms(rec.start_time),
     end_time |-> now]

CancelledUpdate(rec) ==
    [status |-> "cancelled", end_time |-> now, duration_ms |-> duration_ms(rec.start_time)]

SuccessResponse(t, start) ==
    [success |-> TRUE, result |-> "result", task_id |-> t, duration_ms |-> duration_ms(start)]

ErrorResponse(t, start, msg) ==
    [success |-> FALSE, error |-> msg, task_id |-> t, duration_ms |-> duration_ms(start)]

\* No call in flight; old records of calls that have returned are in task_history.
TasksInitFor(old) ==
    /\ active_tasks = {}
    /\ task_history = <<>>
    /\ taskRecord = EmptyDict
    /\ rpcPc = [t \in TaskIds |-> "new"]
    /\ rpcResponse = [t \in TaskIds |-> NoResponse]
    /\ now = 0
    /\ cancelReturned = [task_id |-> 0, value |-> FALSE]
    /\ historyOld = old

\* A fresh server.
TasksInit == TasksInitFor(0)

\* A server whose history a sweep has cut to the cap.
TasksFullInit == TasksInitFor(HISTORY_CAP)

\* handle_rpc up to its first suspension: validation, record creation and
\* the has_agent check of _execute_task.
HandleRpcBegin(payload) ==
    /\ \E t \in TaskIds : rpcPc[t] = "new"
    /\ LET t == NextTaskId
       IN IF payload.method = NoValue \/ payload.agent = NoValue
          THEN \* ValueError before the record exists; the handler finds no record
               /\ rpcPc' = [rpcPc EXCEPT ![t] = "returned"]
               /\ rpcResponse' = [rpcResponse EXCEPT ![t] = ErrorResponse(t, now, "required")]
               /\ UNCHANGED <<active_tasks, task_history, taskRecord>>
          ELSE IF payload.agent \notin managerAgents
          THEN \* _execute_task raises ValueError; the handler fails the record
               /\ taskRecord' = DictSet(taskRecord, t,
                                   DictUpdate(NewTaskRecord(t, payload),
                                              FailedUpdate(NewTaskRecord(t, payload))))
               /\ task_history' = Append(task_history, t)
               /\ rpcPc' = [rpcPc EXCEPT ![t] = "returned"]
               /\ rpcResponse' = [rpcResponse EXCEPT ![t] = ErrorResponse(t, now, "Unknown agent")]
               /\ UNCHANGED active_tasks
          ELSE /\ taskRecord' = DictSet(taskRecord, t, NewTaskRecord(t, payload))
               /\ active_tasks' = active_tasks \cup {t}
               /\ rpcPc' = [rpcPc EXCEPT ![t] = "inflight"]
               /\ UNCHANGED <<task_history, rpcResponse>>
    /\ UNCHANGED <<now, cancelReturned, historyOld>>
    /\ UNCHANGED NotTasks

\* The agent call of handle_rpc returns: lines 112-138, and the except
\* branch when del self.active_tasks[task_id] raises KeyError.
HandleRpcAgentReturn(t) ==
    /\ rpcPc[t] = "inflight"
    /\ taskRecord' = DictSet(taskRecord, t, DictUpdate(taskRecord[t], CompletedUpdate(taskRecord[t])))
    /\ task_history' = Append(task_history, t)
    /\ IF t \in active_tasks
       THEN /\ active_tasks' = active_tasks \ {t}
            /\ rpcResponse' = [rpcResponse EXCEPT ![t] = SuccessResponse(t, taskRecord[t].start_time)]
       ELSE /\ UNCHANGED active_tasks
            /\ rpcResponse' = [rpcResponse EXCEPT ![t] =
                                  ErrorResponse(t, taskRecord[t].start_time, "KeyError")]
    /\ rpcPc' = [rpcPc EXCEPT ![t] = "returned"]
    /\ UNCHANGED <<now, cancelReturned, historyOld>>
    /\ UNCHANGED NotTasks

\* The agent call of handle_rpc raises: lines 140-168.
HandleRpcAgentRaise(t) ==
    /\ rpcPc[t] = "inflight"
    /\ IF t \in active_tasks
       THEN /\ taskRecord' = DictSet(taskRecord, t, DictUpdate(taskRecord[t], FailedUpdate(taskRecord[t])))
            /\ task_history' = Append(task_history, t)
            /\ active_tasks' = active_tasks \ {t}
       ELSE UNCHANGED <<taskRecord, task_history, active_tasks>>
    /\ rpcResponse' = [rpcResponse EXCEPT ![t] = ErrorResponse(t, taskRecord[t].start_time, "error")]
    /\ rpcPc' = [rpcPc EXCEPT ![t] = "returned"]
    /\ UNCHANGED <<now, cancelReturned, historyOld>>
    /\ UNCHANGED NotTasks

\* mutant: the cancelled id is not deleted from active_tasks
CancelEffectKeepsActive(st, t) ==
    IF t \notin st.active
    THEN st
    ELSE [active  |-> st.active,
          history |-> Append(st.history, t),
          records |-> DictSet(st.records, t,
                              DictUpdate(st.records[t], CancelledUpdate(st.records[t])))]

\* The effect of _cancel_task on (active, history, records) for one id.
CancelEffect(st, t) ==
    IF t \notin st.active
    THEN st
    ELSE [active  |-> st.active \ {t},
          history |-> Append(st.history, t),
          records |-> DictSet(st.records, t,
                              DictUpdate(st.records[t], CancelledUpdate(st.records[t])))]

RegistryState == [active |-> active_tasks, history |-> task_history, records |-> taskRecord]

\* cancel_task(task_id), for any id: active, already terminal or unknown
CancelTask(t) ==
    /\ LET st == CancelEffect(RegistryState, t)
       IN /\ active_tasks' = st.active
          /\ task_history' = st.history
          /\ taskRecord' = st.records
    /\ cancelReturned' = [task_id |-> t, value |-> (t \in active_tasks)]
    /\ UNCHANGED <<rpcPc, rpcResponse, now, historyOld>>
    /\ UNCHANGED NotTasks

RECURSIVE CancelAll(_, _)
CancelAll(st, ids) ==
    IF ids = {} THEN st
    ELSE LET t == CHOOSE x \in ids : \A y \in ids : x <= y
         IN CancelAll(CancelEffect(st, t), ids \ {t})

\* mutant: the sweeper waits for twice the ceiling
ExpiredTasksLate == {t \in active_tasks : now - taskRecord[t].start_time > 2 * TASK_TIMEOUT}

ExpiredTasks == {t \in active_tasks : now - taskRecord[t].start_time > TASK_TIMEOUT}

LastN(seq, n) == IF Len(seq) > n THEN SubSeq(seq, Len(seq) - n + 1, Len(seq)) ELSE seq

\* len(self.task_history)
HistoryLen == historyOld + Len(task_history)

\* mutant: the slice keeps one record more than the cap
OldKeptOneMore(old, hist) ==
    IF old + Len(hist) > HISTORY_CAP + 1 THEN HISTORY_CAP + 1 - Len(LastN(hist, HISTORY_CAP)) ELSE old

\* self.task_history[-1000:] on the older records when hist are the newest ones
OldKept(old, hist) ==
    IF old + Len(hist) > HISTORY_CAP THEN HISTORY_CAP - Len(LastN(hist, HISTORY_CAP)) ELSE old

\* One pass of the loop of _cleanup_expired_tasks.
Sweep ==
    /\ LET st == CancelAll(RegistryState, ExpiredTasks)
       IN /\ active_tasks' = st.active
          /\ taskRecord' = st.records
          /\ task_history' = LastN(st.history, HISTORY_CAP)
          /\ historyOld' = OldKept(historyOld, st.history)
    /\ UNCHANGED <<rpcPc, rpcResponse, now, cancelReturned>>
    /\ UNCHANGED NotTasks

\* Time passes.
TaskTick ==
    /\ now + TickSeconds <= MaxTicks * TickSeconds
    /\ now' = now + TickSeconds
    /\ UNCHANGED <<active_tasks, task_history, taskRecord, rpcPc, rpcResponse, cancelReturned,
                   historyOld>>
    /\ UNCHANGED NotTasks

TasksNext ==
    \/ \E payload \in Payloads : HandleRpcBegin(payload)
    \/ \E t \in TaskIds : HandleRpcAgentReturn(t)
    \/ \E t \in TaskIds : HandleRpcAgentRaise(t)
    \/ \E t \in TaskIds : CancelTask(t)
    \/ Sweep
    \/ TaskTick

(***************************************************************************)
(* SagaOrchestrator (core/elite_architecture.py)                           *)
(* The event store is the collaborator's append-only log; its append is    *)
(* taken to succeed.                                                       *)
(***************************************************************************)
\* What awaiting an action or a compensation under wait_for can do.
AwaitOutcomes == {"ok", "raise", "timeout"}

Event(type, step) == [type |-> type, step |-> step]

Reverse(seq) == [i \in 1..Len(seq) |-> seq[Len(seq) - i + 1]]

\* mutant: _compensate visits completed_steps in forward order
CompensationOrderForward(completed) == completed

\* reversed(self.completed_steps): the order in which _compensate visits steps
CompensationOrder(completed) == Reverse(completed)

\* mutant: the completion is logged ahead of the start
StepEventsCompletedFirst(step, outcome) ==
    IF outcome = "ok"
    THEN <<Event("SagaStepCompleted", step), Event("SagaStepStarted", step)>>
    ELSE <<Event("SagaStepStarted", step)>>

\* lines 228-235 and 248-255: the events one iteration of execute() appends
StepEvents(step, outcome) ==
    IF outcome = "ok"
    THEN <<Event("SagaStepStarted", step), Event("SagaStepCompleted", step)>>
    ELSE <<Event("SagaStepStarted", step)>>

\* str(e) of an exception raised by an action; asyncio.TimeoutError() has no text
ErrorTexts == {"", "boom"}
StrOfFailure(cause, text) == IF cause = "timeout" THEN "" ELSE text

\* line 260: raise Exception(f"Saga failed at step {step.name}: {str(e)}")
SagaError(step, cause, text) ==
    [type |-> "Exception",
     message |-> <<"Saga failed at step ", step, ": ", StrOfFailure(cause, text)>>]

SagaInit ==
    /\ \E n \in 0..MaxSagaSteps : sagaSteps = [i \in 1..n |-> [completed |-> FALSE]]
    /\ completed_steps = <<>>
    /\ sagaPc = "idle"
    /\ sagaIdx = 0
    /\ sagaRun = 0
    /\ sagaStarted = <<>>
    /\ sagaCompleted = <<>>
    /\ compensations = <<>>
    /\ eventLog = <<>>
    /\ eventsBefore = 0
    /\ sagaOutcome = "none"
    /\ sagaFailure = [step |-> 0, cause |-> "none"]
    /\ sagaRaised = 0

\* execute() is called.
SagaExecuteBegin ==
    /\ sagaPc = "idle"
    /\ sagaRun < MaxSagaRuns
    /\ sagaRun' = sagaRun + 1
    /\ sagaPc' = "loop"
    /\ sagaIdx' = 1
    /\ sagaStarted' = <<>>
    /\ sagaCompleted' = <<>>
    /\ compensations' = <<>>
    /\ sagaOutcome' = "none"
    /\ sagaFailure' = [step |-> 0, cause |-> "none"]
    /\ sagaRaised' = 0
    /\ eventLog' = <<>>
    /\ eventsBefore' = eventsBefore + Len(eventLog)
    /\ UNCHANGED <<sagaSteps, completed_steps>>
    /\ UNCHANGED NotSaga

\* One iteration of the for loop of execute(): lines 227-255, and the entry
\* into the except branch when the action raises or times out.
SagaStepAction(outcome) ==
    /\ sagaPc = "loop"
    /\ sagaIdx <= Len(sagaSteps)
    /\ sagaStarted' = Append(sagaStarted, sagaIdx)
    /\ IF outcome = "ok"
       THEN /\ sagaSteps' = [sagaSteps EXCEPT ![sagaIdx].completed = TRUE]
            /\ completed_steps' = Append(completed_steps, sagaIdx)
            /\ sagaCompleted' = Append(sagaCompleted, sagaIdx)
            /\ eventLog' = eventLog \o StepEvents(sagaIdx, outcome)
            /\ sagaIdx' = sagaIdx + 1
            /\ UNCHANGED <<sagaPc, sagaFailure>>
       ELSE /\ eventLog' = eventLog \o StepEvents(sagaIdx, outcome)
            /\ sagaFailure' = [step |-> sagaIdx, cause |-> outcome]
            /\ sagaPc' = "compensating"
            /\ sagaIdx' = 1
            /\ UNCHANGED <<sagaSteps, completed_steps, sagaCompleted>>
    /\ UNCHANGED <<sagaRun, compensations, eventsBefore, sagaOutcome, sagaRaised>>
    /\ UNCHANGED NotSaga

\* The for loop of execute() is exhausted: return results.
SagaReturn ==
    /\ sagaPc = "loop"
    /\ sagaIdx > Len(sagaSteps)
    /\ sagaPc' = "idle"
    /\ sagaOutcome' = "returned"
    /\ UNCHANGED <<sagaSteps, completed_steps, sagaIdx, sagaRun, sagaStarted, sagaCompleted,
                   compensations, eventLog, eventsBefore, sagaFailure, sagaRaised>>
    /\ UNCHANGED NotSaga

\* mutant: the sweep is left one step early
CompensationDoneEarly == sagaIdx >= Len(completed_steps)

\* mutant: a failed compensation ends the sweep
CompensationDoneOnFailure ==
    \/ sagaIdx > Len(completed_steps)
    \/ (eventLog # <<>> /\ eventLog[Len(eventLog)].type = "SagaCompensationFailed")

\* the for loop of _compensate() is exhausted
CompensationDone == sagaIdx > Len(completed_steps)

\* One iteration of the for loop of _compensate().
SagaCompensateStep(outcome) ==
    /\ sagaPc = "compensating"
    /\ ~CompensationDone
    /\ LET step == CompensationOrder(completed_steps)[sagaIdx]
       IN /\ compensations' = Append(compensations, step)
          /\ eventLog' = Append(eventLog,
                                IF outcome = "ok"
                                THEN Event("SagaStepCompensated", step)
                                ELSE Event("SagaCompensationFailed", step))
    /\ sagaIdx' = sagaIdx + 1
    /\ UNCHANGED <<sagaSteps, completed_steps, sagaPc, sagaRun, sagaStarted, sagaCompleted,
                   eventsBefore, sagaOutcome, sagaFailure, sagaRaised>>
    /\ UNCHANGED NotSaga

\* _compensate() has returned: raise Exception("Saga failed at step ...").
SagaRaise ==
    /\ sagaPc = "compensating"
    /\ CompensationDone
    /\ sagaPc' = "idle"
    /\ sagaOutcome' = "raised"
    /\ sagaRaised' = sagaFailure.step
    /\ UNCHANGED <<sagaSteps, completed_steps, sagaIdx, sagaRun, sagaStarted, sagaCompleted,
                   compensations, eventLog, eventsBefore, sagaFailure>>
    /\ UNCHANGED NotSaga

SagaNext ==
    \/ SagaExecuteBegin
    \/ \E outcome \in AwaitOutcomes : SagaStepAction(outcome)
    \/ SagaReturn
    \/ \E outcome \in AwaitOutcomes : SagaCompensateStep(outcome)
    \/ SagaRaise

(***************************************************************************)
(* CircuitBreaker (core/elite_architecture.py)                             *)
(***************************************************************************)
CLOSED == "closed"
OPEN == "open"
HALF_OPEN == "half_open"

\* self.last_failure_time = None
NoTime == -1

Callers == 1..MaxCallers

\* What awaiting func() can do: return, raise an expected_exception, or raise
\* something that is not an expected_exception.
FuncOutcomes == {"ok", "fail", "other"}

Breaker == [state |-> state, failure_count |-> failure_count,
            success_count |-> success_count, last_failure_time |-> last_failure_time]

SetBreaker(b) ==
    /\ state' = b.state
    /\ failure_count' = b.failure_count
    /\ success_count' = b.success_count
    /\ last_failure_time' = b.last_failure_time

\* mutant: the reset is attempted as soon as recovery_timeout is reached
ShouldAttemptResetAtTimeout(b, t) ==
    /\ b.last_failure_time # NoTime
    /\ t - b.last_failure_time >= recovery_timeout

\* _should_attempt_reset at time t
ShouldAttemptReset(b, t) ==
    /\ b.last_failure_time # NoTime
    /\ t - b.last_failure_time > recovery_timeout

\* The body of the locked section of call(): the breaker after the check and
\* whether the call goes on to invoke func.
Admission(b, t) ==
    IF b.state = OPEN
    THEN IF ShouldAttemptReset(b, t)
         THEN [breaker |-> [b EXCEPT !.state = HALF_OPEN], admitted |-> TRUE]
         ELSE [breaker |-> b, admitted |-> FALSE]
    ELSE [breaker |-> b, admitted |-> TRUE]

\* mutant: a success does not reset failure_count
OnSuccessKeepsFailures(b) ==
    IF b.state = HALF_OPEN
    THEN LET b2 == [b EXCEPT !.success_count = @ + 1]
         IN IF b2.success_count >= success_threshold
            THEN [b2 EXCEPT !.state = CLOSED, !.success_count = 0]
            ELSE b2
    ELSE b

\* The body of the locked section of _on_success
OnSuccess(b) ==
    LET b1 == [b EXCEPT !.failure_count = 0]
    IN IF b1.state = HALF_OPEN
       THEN LET b2 == [b1 EXCEPT !.success_count = @ + 1]
            IN IF b2.success_count >= success_threshold
               THEN [b2 EXCEPT !.state = CLOSED, !.success_count = 0]
               ELSE b2
       ELSE b1

\* mutant: a failure in HALF_OPEN is treated like one in CLOSED
OnFailureNoHalfOpenBranch(b, t) ==
    LET b1 == [b EXCEPT !.failure_count = @ + 1, !.last_failure_time = t]
    IN IF b1.failure_count >= failure_threshold
       THEN [b1 EXCEPT !.state = OPEN]
       ELSE b1

\* The body of the locked section of _on_failure at time t
OnFailure(b, t) ==
    LET b1 == [b EXCEPT !.failure_count = @ + 1, !.last_failure_time = t]
    IN IF b1.state = HALF_OPEN
       THEN [b1 EXCEPT !.state = OPEN, !.success_count = 0]
       ELSE IF b1.failure_count >= failure_threshold
            THEN [b1 EXCEPT !.state = OPEN]
            ELSE b1

\* mutant: the sections are entered without waiting for the lock
LockAlwaysFree == TRUE

\* asyncio.Lock: acquire succeeds only while nobody holds the lock
LockFree == cbLock = 0

InSection == {"admit", "on_success", "on_failure"}

CBInitFor(cs) ==
    /\ state = CLOSED
    /\ failure_count = 0
    /\ success_count = 0
    /\ last_failure_time = NoTime
    /\ cbLock = 0
    /\ callPc = [c \in Callers |-> "idle"]
    /\ callResult = [c \in Callers |-> "none"]
    /\ cbNow = 0
    /\ consecFailures = 0
    /\ consecSuccesses = 0
    /\ callers = cs

\* calls made one at a time
CBInitSeq == CBInitFor({1})

\* concurrent callers
CBInit == CBInitFor(Callers)

UnchangedBreaker == UNCHANGED <<state, failure_count, success_count, last_failure_time>>
UnchangedHistory == UNCHANGED <<consecFailures, consecSuccesses>>

\* call(): async with self._lock is entered
CallEnter(c) ==
    /\ c \in callers
    /\ callPc[c] = "idle"
    /\ LockFree
    /\ cbLock' = c
    /\ callPc' = [callPc EXCEPT ![c] = "admit"]
    /\ callResult' = [callResult EXCEPT ![c] = "none"]
    /\ UnchangedBreaker /\ UnchangedHistory
    /\ UNCHANGED <<cbNow, callers>>
    /\ UNCHANGED NotCB

\* call(): the locked section, lines 48-52, and the release of the lock
CallAdmit(c) ==
    /\ callPc[c] = "admit"
    /\ LET a == Admission(Breaker, cbNow)
       IN /\ SetBreaker(a.breaker)
          /\ callPc' = [callPc EXCEPT ![c] = IF a.admitted THEN "inflight" ELSE "idle"]
          /\ callResult' = [callResult EXCEPT ![c] = IF a.admitted THEN "none" ELSE "circuit_open"]
          /\ consecSuccesses' = IF a.breaker.state # state THEN 0 ELSE consecSuccesses
    /\ cbLock' = 0
    /\ UNCHANGED <<cbNow, consecFailures, callers>>
    /\ UNCHANGED NotCB

\* await func(...) finishes
CallFuncDone(c, outcome) ==
    /\ callPc[c] = "inflight"
    /\ callPc' = [callPc EXCEPT ![c] = CASE outcome = "ok" -> "want_success"
                                          [] outcome = "fail" -> "want_failure"
                                          [] OTHER -> "idle"]
    /\ callResult' = [callResult EXCEPT ![c] = IF outcome = "other" THEN "raised_other" ELSE "none"]
    /\ UnchangedBreaker /\ UnchangedHistory
    /\ UNCHANGED <<cbLock, cbNow, callers>>
    /\ UNCHANGED NotCB

\* _on_success / _on_failure: async with self._lock is entered
CallEnterRecord(c) ==
    /\ callPc[c] \in {"want_success", "want_failure"}
    /\ LockFree
    /\ cbLock' = c
    /\ callPc' = [callPc EXCEPT ![c] = IF callPc[c] = "want_success" THEN "on_success" ELSE "on_failure"]
    /\ UnchangedBreaker /\ UnchangedHistory
    /\ UNCHANGED <<callResult, cbNow, callers>>
    /\ UNCHANGED NotCB

\* _on_success: the locked section and the release of the lock; call() returns
CallOnSuccess(c) ==
    /\ callPc[c] = "on_success"
    /\ SetBreaker(OnSuccess(Breaker))
    /\ consecFailures' = 0
    /\ consecSuccesses' = IF state = HALF_OPEN THEN consecSuccesses + 1 ELSE consecSuccesses
    /\ cbLock' = 0
    /\ callPc' = [callPc EXCEPT ![c] = "idle"]
    /\ callResult' = [callResult EXCEPT ![c] = "returned"]
    /\ UNCHANGED <<cbNow, callers>>
    /\ UNCHANGED NotCB

\* _on_failure: the locked section and the release of the lock; call() re-raises
CallOnFailure(c) ==
    /\ callPc[c] = "on_failure"
    /\ SetBreaker(OnFailure(Breaker, cbNow))
    /\ consecFailures' = consecFailures + 1
    /\ consecSuccesses' = 0
    /\ cbLock' = 0
    /\ callPc' = [callPc EXCEPT ![c] = "idle"]
    /\ callResult' = [callResult EXCEPT ![c] = "raised"]
    /\ UNCHANGED <<cbNow, callers>>
    /\ UNCHANGED NotCB

\* Time passes.
CbTick ==
    /\ cbNow < MaxCbTime
    /\ cbNow' = cbNow + 1
    /\ UnchangedBreaker /\ UnchangedHistory
    /\ UNCHANGED <<cbLock, callPc, callResult, callers>>
    /\ UNCHANGED NotCB

CBNext ==
    \/ \E c \in Callers : CallEnter(c)
    \/ \E c \in Callers : CallAdmit(c)
    \/ \E c \in Callers : \E outcome \in FuncOutcomes : CallFuncDone(c, outcome)
    \/ \E c \in Callers : CallEnterRecord(c)
    \/ \E c \in Callers : CallOnSuccess(c)
    \/ \E c \in Callers : CallOnFailure(c)
    \/ CbTick

(***************************************************************************)
(* DistributedLock (core/elite_architecture.py)                            *)
(* All instances are built for the same key.  The store is Redis: every    *)
(* command and every script runs atomically, and a key whose time to live  *)
(* runs out is deleted.                                                    *)
(***************************************************************************)
Instances == 1..MaxInstances

\* the key is not in the store
Absent == 0

\* self.identifier: a uuid4 per instance, distinct between instances
identifier(i) == i

NoOp == [op |-> "none"]

\* mutant: the set is done without nx=True
SetEx(k, value, ttl) == [value |-> value, ttl |-> ttl, reply |-> TRUE]

\* redis.set(key, value, nx=True, ex=ttl) on the key's (value, ttl)
SetNxEx(k, value, ttl) ==
    IF k.value = Absent
    THEN [value |-> value, ttl |-> ttl, reply |-> TRUE]
    ELSE [value |-> k.value, ttl |-> k.ttl, reply |-> FALSE]

\* mutant: release deletes the key without comparing its value
DeleteAnyway(k, value) ==
    [value |-> Absent, ttl |-> 0, reply |-> (k.value # Absent)]

\* the Lua script of release(): delete the key if it holds the given value
CompareAndDelete(k, value) ==
    IF k.value = value
    THEN [value |-> Absent, ttl |-> 0, reply |-> TRUE]
    ELSE [value |-> k.value, ttl |-> k.ttl, reply |-> FALSE]

\* redis.expire(key, ttl): resets the time to live of an existing key
Expire(k, ttl) ==
    IF k.value # Absent
    THEN [value |-> k.value, ttl |-> ttl]
    ELSE k

Key == [value |-> store, ttl |-> storeTtl]

LockInit ==
    /\ store = Absent
    /\ storeTtl = 0
    /\ renewPc = [i \in Instances |-> "off"]
    /\ renewSlept = [i \in Instances |-> 0]
    /\ holding = {}
    /\ lastOp = NoOp
    /\ winners = {}

\* acquire()
Acquire(i) ==
    /\ i \notin holding
    /\ LET r == SetNxEx(Key, identifier(i), timeout)
       IN /\ store' = r.value
          /\ storeTtl' = r.ttl
          /\ lastOp' = [op |-> "acquire", inst |-> i, before |-> store, ttlBefore |-> storeTtl,
                        held |-> FALSE, result |-> r.reply]
          /\ IF r.reply
             THEN /\ renewPc' = [renewPc EXCEPT ![i] = "sleeping"]
                  /\ renewSlept' = [renewSlept EXCEPT ![i] = 0]
                  /\ holding' = holding \cup {i}
                  /\ winners' = winners \cup {i}
             ELSE UNCHANGED <<renewPc, renewSlept, holding, winners>>
    /\ UNCHANGED NotLock

\* release(), called by any instance, holding or not
Release(i) ==
    /\ LET r == CompareAndDelete(Key, identifier(i))
       IN /\ store' = r.value
          /\ storeTtl' = r.ttl
          /\ lastOp' = [op |-> "release", inst |-> i, before |-> store, ttlBefore |-> storeTtl,
                        held |-> (i \in holding), result |-> r.reply]
          /\ winners' = IF r.value = Absent THEN {} ELSE winners
    /\ renewPc' = [renewPc EXCEPT ![i] = "off"]
    /\ renewSlept' = [renewSlept EXCEPT ![i] = 0]
    /\ holding' = holding \ {i}
    /\ UNCHANGED NotLock

\* _renew_lock: the sleep is over, redis.get(self.key) is compared with the identifier
RenewGet(i) ==
    /\ renewPc[i] = "sleeping"
    /\ 2 * renewSlept[i] >= timeout
    /\ renewPc' = [renewPc EXCEPT ![i] = IF store = identifier(i) THEN "got_own" ELSE "off"]
    /\ lastOp' = NoOp
    /\ UNCHANGED <<store, storeTtl, renewSlept, holding, winners>>
    /\ UNCHANGED NotLock

\* _renew_lock: redis.expire(self.key, self.timeout), then the next sleep
RenewExpire(i) ==
    /\ renewPc[i] = "got_own"
    /\ LET r == Expire(Key, timeout)
       IN /\ store' = r.value
          /\ storeTtl' = r.ttl
    /\ renewPc' = [renewPc EXCEPT ![i] = "sleeping"]
    /\ renewSlept' = [renewSlept EXCEPT ![i] = 0]
    /\ lastOp' = NoOp
    /\ UNCHANGED <<holding, winners>>
    /\ UNCHANGED NotLock

\* One clock tick: sleeps progress, the key's time to live runs down and the
\* key is deleted when it reaches 0.
LockTick ==
    /\ renewSlept' = [i \in Instances |->
                        IF renewPc[i] = "sleeping" /\ renewSlept[i] < timeout
                        THEN renewSlept[i] + 1 ELSE renewSlept[i]]
    /\ IF store # Absent /\ storeTtl <= 1
       THEN /\ store' = Absent
            /\ storeTtl' = 0
            /\ winners' = {}
       ELSE /\ storeTtl' = IF store # Absent THEN storeTtl - 1 ELSE storeTtl
            /\ UNCHANGED <<store, winners>>
    /\ lastOp' = NoOp
    /\ UNCHANGED <<renewPc, holding>>
    /\ UNCHANGED NotLock

LockNext ==
    \/ \E i \in Instances : Acquire(i)
    \/ \E i \in Instances : Release(i)
    \/ \E i \in Instances : RenewGet(i)
    \/ \E i \in Instances : RenewExpire(i)
    \/ LockTick

(***************************************************************************)
(* RateLimiter.check_token_bucket  (core/elite_architecture.py 541-589)    *)
(* One key. Every call computes now on the client and sends one script,    *)
(* which the store runs as a whole; between the two the clock may advance  *)
(* and the scripts of other callers may run.                               *)
(***************************************************************************)
MaxRlCallers    == 2
MaxRlTime       == 2
MaxRefillRate   == 3
capacity        == 2
refill_period   == 1

RlCallers == 1..MaxRlCallers

Min(a, b) == IF a <= b THEN a ELSE b

NoBucket == [present |-> FALSE, tokens |-> 0, last_refill |-> 0, ttl |-> 0]

\* tokens = tonumber(bucket[1]) or capacity ; last_refill = tonumber(bucket[2]) or now
HashTokens(b)          == IF b.present THEN b.tokens ELSE capacity
HashLastRefill(b, t)   == IF b.present THEN b.last_refill ELSE t

\* tokens_to_add = math.floor(time_passed / refill_period) * refill_rate
TokensToAdd(b, t) == ((t - HashLastRefill(b, t)) \div refill_period) * refill_rate

\* tokens = math.min(capacity, tokens + tokens_to_add)
RefillUncapped(b, t) == HashTokens(b) + TokensToAdd(b, t)
Refill(b, t) == Min(capacity, HashTokens(b) + TokensToAdd(b, t))

\* The script on hash b with ARGV now = t: what it returns and the hash it leaves
TokenBucketScriptNoDecrement(b, t) ==
    IF Refill(b, t) >= 1
    THEN [allowed |-> TRUE,
          bucket  |-> [present |-> TRUE, tokens |-> Refill(b, t),
                       last_refill |-> t, ttl |-> capacity * refill_period]]
    ELSE [allowed |-> FALSE, bucket |-> b]
TokenBucketScript(b, t) ==
    IF Refill(b, t) >= 1
    THEN [allowed |-> TRUE,
          bucket  |-> [present |-> TRUE, tokens |-> Refill(b, t) - 1,
                       last_refill |-> t, ttl |-> capacity * refill_period]]
    ELSE [allowed |-> FALSE, bucket |-> b]

NoRun == [now |-> 0, fresh |-> FALSE, tokens |-> 0, elapsed |-> 0,
          calls |-> 0, allowed |-> 0]

\* The run of back-to-back evaluations after one more evaluation with now = t
RunAfter(t, allowed) ==
    IF rlRun.calls > 0 /\ rlRun.now = t
    THEN [rlRun EXCEPT !.calls = Min(@ + 1, capacity + 2),
                       !.allowed = IF allowed THEN @ + 1 ELSE @]
    ELSE [now |-> t, fresh |-> ~bucket.present, tokens |-> HashTokens(bucket),
          elapsed |-> t - HashLastRefill(bucket, t),
          calls |-> 1, allowed |-> IF allowed THEN 1 ELSE 0]

BucketInitFor(cs) ==
    /\ bucket = NoBucket
    /\ refill_rate \in {1, MaxRefillRate}
    /\ rlNow = 0
    /\ rlPc = [c \in RlCallers |-> "idle"]
    /\ rlArgNow = [c \in RlCallers |-> 0]
    /\ rlResult = [c \in RlCallers |-> "none"]
    /\ rlRun = NoRun
    /\ rlBase = 0
    /\ rlAllowed = 0
    /\ rlCallers = cs

BucketInit == BucketInitFor(RlCallers)

BucketIdle ==
    /\ bucket = NoBucket
    /\ refill_rate = 1
    /\ rlNow = 0
    /\ rlPc = [c \in RlCallers |-> "idle"]
    /\ rlArgNow = [c \in RlCallers |-> 0]
    /\ rlResult = [c \in RlCallers |-> "none"]
    /\ rlRun = NoRun
    /\ rlBase = 0
    /\ rlAllowed = 0
    /\ rlCallers = {}

\* line 549: now = datetime.utcnow().timestamp(), then the script is sent
CheckTokenBucketBegin(c) ==
    /\ c \in rlCallers
    /\ rlPc[c] = "idle"
    /\ rlPc' = [rlPc EXCEPT ![c] = "sent"]
    /\ rlArgNow' = [rlArgNow EXCEPT ![c] = rlNow]
    /\ rlResult' = [rlResult EXCEPT ![c] = "none"]
    /\ UNCHANGED <<bucket, refill_rate, rlNow, rlRun, rlBase, rlAllowed, rlCallers>>
    /\ UNCHANGED NotBucket

\* lines 553-589: the store runs the script, the call returns bool(allowed)
CheckTokenBucketEval(c) ==
    /\ c \in rlCallers
    /\ rlPc[c] = "sent"
    /\ LET t   == rlArgNow[c]
           out == TokenBucketScript(bucket, t)
           refilled == ~bucket.present \/ TokensToAdd(bucket, t) # 0
       IN /\ bucket' = out.bucket
          /\ rlResult' = [rlResult EXCEPT ![c] = IF out.allowed THEN "allowed" ELSE "denied"]
          /\ rlRun' = RunAfter(t, out.allowed)
          /\ rlBase' = IF out.allowed /\ refilled
                       THEN Min(capacity, HashTokens(bucket) + TokensToAdd(bucket, t))
                       ELSE rlBase
          /\ rlAllowed' = IF ~out.allowed THEN rlAllowed
                          ELSE IF refilled THEN 1 ELSE rlAllowed + 1
    /\ rlPc' = [rlPc EXCEPT ![c] = "idle"]
    /\ rlArgNow' = [rlArgNow EXCEPT ![c] = 0]
    /\ UNCHANGED <<refill_rate, rlNow, rlCallers>>
    /\ UNCHANGED NotBucket

\* One tick of time; the key is dropped when its time to live runs out (EXPIRE, line 572)
RlTick ==
    /\ rlNow < MaxRlTime
    /\ rlNow' = rlNow + 1
    /\ bucket' = IF ~bucket.present THEN bucket
                 ELSE IF bucket.ttl = 1 THEN NoBucket
                 ELSE [bucket EXCEPT !.ttl = @ - 1]
    /\ rlRun' = NoRun
    /\ UNCHANGED <<refill_rate, rlPc, rlArgNow, rlResult, rlBase, rlAllowed, rlCallers>>
    /\ UNCHANGED NotBucket

BucketNext ==
    \/ \E c \in RlCallers : CheckTokenBucketBegin(c)
    \/ \E c \in RlCallers : CheckTokenBucketEval(c)
    \/ RlTick

(***************************************************************************)
(* RateLimiter.check_sliding_window  (core/elite_architecture.py 591-613)  *)
(* One key. Every call computes now on the client and then awaits four     *)
(* separate store commands: zremrangebyscore, zcard, zadd, expire. Each    *)
(* command is one step; the clock and other callers may move in between.   *)
(***************************************************************************)
MaxSwCallers == 2
MaxSwTime    == 3
limit        == 2
window       == 2

SwCallers == 1..MaxSwCallers
SwTimes   == 0..MaxSwTime

NoEntries == [t \in SwTimes |-> 0]

RECURSIVE SumUpTo(_, _)
SumUpTo(f, n) == IF n < 0 THEN 0 ELSE f[n] + SumUpTo(f, n - 1)

\* ZCARD: number of members of the sorted set (f: score -> number of members)
Zcard(f) == SumUpTo(f, MaxSwTime)

\* ZREMRANGEBYSCORE key 0 max: drops the members with 0 <= score <= max
ZremrangebyscoreExclusive(f, max) == [t \in SwTimes |-> IF t < max THEN 0 ELSE f[t]]
Zremrangebyscore(f, max) == [t \in SwTimes |-> IF t <= max THEN 0 ELSE f[t]]

\* ZADD key {uuid4: score}: the member is new, so the set grows by one
Zadd(f, score) == [f EXCEPT ![score] = @ + 1]

\* Members of f whose score lies in the trailing window (t - window, t]
InWindow(f, t) == SumUpTo([u \in SwTimes |-> IF u > t - window /\ u <= t THEN f[u] ELSE 0],
                          MaxSwTime)

NoSwResult == [allowed |-> FALSE, remaining |-> -1]

WindowInitFor(cs) ==
    /\ zset = NoEntries
    /\ zsetTtl = 0
    /\ swNow = 0
    /\ swPc = [c \in SwCallers |-> "idle"]
    /\ swArgNow = [c \in SwCallers |-> 0]
    /\ swCount = [c \in SwCallers |-> 0]
    /\ swResult = [c \in SwCallers |-> NoSwResult]
    /\ swAllowed = NoEntries
    /\ swBefore = [c \in SwCallers |-> 0]
    /\ swTicked = FALSE
    /\ swCallers = cs

WindowInitSeq == WindowInitFor({1})
WindowInit    == WindowInitFor(SwCallers)
WindowIdle    == WindowInitFor({})

\* line 598: now = datetime.utcnow().timestamp()
SlidingWindowBegin(c) ==
    /\ c \in swCallers
    /\ swPc[c] = "idle"
    /\ swPc' = [swPc EXCEPT ![c] = "zremrangebyscore"]
    /\ swArgNow' = [swArgNow EXCEPT ![c] = swNow]
    /\ swResult' = [swResult EXCEPT ![c] = NoSwResult]
    /\ swBefore' = [swBefore EXCEPT ![c] = InWindow(swAllowed, swNow)]
    /\ UNCHANGED <<zset, zsetTtl, swNow, swCount, swAllowed, swTicked, swCallers>>
    /\ UNCHANGED NotWindow

\* line 602: await self.redis.zremrangebyscore(window_key, 0, now - window)
SlidingWindowPrune(c) ==
    /\ swPc[c] = "zremrangebyscore"
    /\ zset' = Zremrangebyscore(zset, swArgNow[c] - window)
    /\ zsetTtl' = IF Zcard(zset') = 0 THEN 0 ELSE zsetTtl
    /\ swPc' = [swPc EXCEPT ![c] = "zcard"]
    /\ UNCHANGED <<swNow, swArgNow, swCount, swResult, swAllowed, swBefore, swTicked,
                   swCallers>>
    /\ UNCHANGED NotWindow

\* lines 605-607, 613: current_count = await self.redis.zcard(window_key), then the test
SlidingWindowCount(c) ==
    /\ swPc[c] = "zcard"
    /\ IF Zcard(zset) < limit
       THEN /\ swCount' = [swCount EXCEPT ![c] = Zcard(zset)]
            /\ swPc' = [swPc EXCEPT ![c] = "zadd"]
            /\ UNCHANGED <<swResult, swArgNow>>
       ELSE /\ swResult' = [swResult EXCEPT ![c] = [allowed |-> FALSE, remaining |-> 0]]
            /\ swPc' = [swPc EXCEPT ![c] = "idle"]
            /\ swArgNow' = [swArgNow EXCEPT ![c] = 0]
            /\ UNCHANGED swCount
    /\ UNCHANGED <<zset, zsetTtl, swNow, swAllowed, swBefore, swTicked, swCallers>>
    /\ UNCHANGED NotWindow

\* line 609: await self.redis.zadd(window_key, {str(uuid.uuid4()): now})
SlidingWindowAdd(c) ==
    /\ swPc[c] = "zadd"
    /\ zset' = Zadd(zset, swArgNow[c])
    /\ swPc' = [swPc EXCEPT ![c] = "expire"]
    /\ UNCHANGED <<zsetTtl, swNow, swArgNow, swCount, swResult, swAllowed, swBefore,
                   swTicked, swCallers>>
    /\ UNCHANGED NotWindow

\* lines 610-611: await self.redis.expire(window_key, window); return True, remaining
SlidingWindowExpire(c) ==
    /\ swPc[c] = "expire"
    /\ zsetTtl' = IF Zcard(zset) = 0 THEN 0 ELSE window
    /\ swResult' = [swResult EXCEPT ![c] =
                       [allowed |-> TRUE, remaining |-> limit - swCount[c] - 1]]
    /\ swAllowed' = Zadd(swAllowed, swArgNow[c])
    /\ swPc' = [swPc EXCEPT ![c] = "idle"]
    /\ swArgNow' = [swArgNow EXCEPT ![c] = 0]
    /\ swCount' = [swCount EXCEPT ![c] = 0]
    /\ UNCHANGED <<zset, swNow, swBefore, swTicked, swCallers>>
    /\ UNCHANGED NotWindow

\* One tick of time; the key is dropped when its time to live runs out
SwTick ==
    /\ swNow < MaxSwTime
    /\ swNow' = swNow + 1
    /\ zset' = IF zsetTtl = 1 THEN NoEntries ELSE zset
    /\ zsetTtl' = IF zsetTtl > 0 THEN zsetTtl - 1 ELSE 0
    /\ swTicked' = (swTicked \/ \E c \in SwCallers : swPc[c] # "idle")
    /\ UNCHANGED <<swPc, swArgNow, swCount, swResult, swAllowed, swBefore, swCallers>>
    /\ UNCHANGED NotWindow

WindowNext ==
    \/ \E c \in SwCallers : SlidingWindowBegin(c)
    \/ \E c \in SwCallers : SlidingWindowPrune(c)
    \/ \E c \in SwCallers : SlidingWindowCount(c)
    \/ \E c \in SwCallers : SlidingWindowAdd(c)
    \/ \E c \in SwCallers : SlidingWindowExpire(c)
    \/ SwTick

(***************************************************************************)
(* MultiLayerCache  (core/elite_architecture.py 299-381)                   *)
(* L1 is the in-process dict with its access bookkeeping, L2 is the store  *)
(* with a time to live per key. A step is the code between two awaits of a *)
(* store command, or the store running one command.                        *)
(***************************************************************************)
MaxCacheClients == 2
MaxAccessCount  == 1
l1_size         == 2
default_ttl     == 1

CacheClients == 1..MaxCacheClients

\* Keys and invalidate() arguments are strings, kept as sequences of characters
CacheKeys == {<<"u">>, <<"u", "x">>, <<"v">>}
Patterns  == {<<"u">>, <<"?">>}

\* Python values handed to set(): a str and a tuple; json.loads can also return a list
Missing   == "<missing>"
SetValues == {"a", "(1,)"}
NoTtlArg  == 0
TtlArgs   == {NoTtlArg, 1}

\* json.dumps / json.loads: a tuple is written as an array and read back as a list
json_dumps(v) == IF v = "a" THEN "json:a" ELSE "json:[1]"
json_loads(text) == IF text = "json:a" THEN "a" ELSE "[1]"

\* str.startswith
StartsWith(k, p) == Len(p) <= Len(k) /\ SubSeq(k, 1, Len(p)) = p

\* Glob matching of the store's SCAN ... MATCH: * is any run, ? is any one character
RECURSIVE GlobMatch(_, _)
GlobMatch(pat, str) ==
    IF pat = <<>> THEN str = <<>>
    ELSE IF Head(pat) = "*"
         THEN GlobMatch(Tail(pat), str) \/ (str # <<>> /\ GlobMatch(pat, Tail(str)))
    ELSE IF str = <<>> THEN FALSE
    ELSE (Head(pat) = "?" \/ Head(pat) = Head(str)) /\ GlobMatch(Tail(pat), Tail(str))

\* scan(match=f"cache:{pattern}*") against the stored name f"cache:{key}"
ScanMatches(p, k) == GlobMatch(<<"cache:">> \o p \o <<"*">>, <<"cache:">> \o k)

NoL2Entry == [text |-> Missing, ttl |-> 0]
\* raced: an invalidate whose pattern is a prefix of this get's key was under way
\* at some moment of the get
IdleOp    == [op |-> "idle", key |-> <<>>, value |-> Missing, stage |-> "none", count |-> 0,
              justSet |-> Missing, raced |-> FALSE]
NoCacheOp == [op |-> "none", key |-> <<>>, value |-> Missing, raised |-> FALSE, count |-> 0,
              justSet |-> Missing]

\* The record of the operation that has just returned or raised; justSet is the
\* value of the set of the same key that returned right before it was called
Done(op, k, v, raised, n, js) ==
    [op |-> op, key |-> k, value |-> v, raised |-> raised, count |-> n, justSet |-> js]

\* The value given by the set of key k that has just returned, if that is the last operation
JustSet(k) ==
    IF cacheLast.op = "set" /\ cacheLast.key = k /\ ~cacheLast.raised
    THEN cacheLast.value ELSE Missing

L1Keys == {k \in CacheKeys : l1_cache[k] # Missing}

RECURSIVE Without(_, _)
Without(seq, k) ==
    IF seq = <<>> THEN <<>>
    ELSE IF Head(seq) = k THEN Without(Tail(seq), k)
    ELSE <<Head(seq)>> \o Without(Tail(seq), k)

\* access_time[key] = datetime.utcnow(): key becomes the most recently accessed
Touch(order, k) == Append(Without(order, k), k)

\* _promote_to_l1 on the dicts (l1, order, counts): the dicts it leaves, or raised
PromoteInsert(l1, order, counts, k, v) ==
    [raised |-> FALSE,
     l1     |-> [l1 EXCEPT ![k] = v],
     order  |-> Touch(order, k),
     counts |-> [counts EXCEPT ![k] = 1]]

\* lines 372-377: eviction of the key with the smallest access_time
EvictionRaises(l1, order) == order = <<>> \/ l1[Head(order)] = Missing

PromoteLate(l1, order, counts, k, v) ==
    IF Cardinality({x \in CacheKeys : l1[x] # Missing}) > l1_size
    THEN IF EvictionRaises(l1, order)
         THEN [raised |-> TRUE, l1 |-> l1, order |-> order, counts |-> counts]
         ELSE PromoteInsert([l1 EXCEPT ![Head(order)] = Missing], Tail(order),
                            [counts EXCEPT ![Head(order)] = 0], k, v)
    ELSE PromoteInsert(l1, order, counts, k, v)

Promote(l1, order, counts, k, v) ==
    IF Cardinality({x \in CacheKeys : l1[x] # Missing}) >= l1_size
    THEN IF EvictionRaises(l1, order)
         THEN [raised |-> TRUE, l1 |-> l1, order |-> order, counts |-> counts]
         ELSE PromoteInsert([l1 EXCEPT ![Head(order)] = Missing], Tail(order),
                            [counts EXCEPT ![Head(order)] = 0], k, v)
    ELSE PromoteInsert(l1, order, counts, k, v)

CacheInitFor(cs) ==
    /\ l1_cache = [k \in CacheKeys |-> Missing]
    /\ access_time = <<>>
    /\ access_count = [k \in CacheKeys |-> 0]
    /\ l2 = [k \in CacheKeys |-> NoL2Entry]
    /\ cachePc = [c \in CacheClients |-> IdleOp]
    /\ cacheLast = NoCacheOp
    /\ ttlElapsed = [k \in CacheKeys |-> FALSE]
    /\ cacheCallers = cs

CacheInitSeq == CacheInitFor({1})
CacheInit    == CacheInitFor(CacheClients)
CacheIdle    == CacheInitFor({})

\* get(), lines 314-320: the L1 lookup; on a miss the store read is awaited
CacheGet(c, k) ==
    /\ c \in cacheCallers
    /\ cachePc[c].op = "idle"
    /\ IF l1_cache[k] # Missing
       THEN /\ access_count' = [access_count EXCEPT ![k] = Min(@ + 1, MaxAccessCount)]
            /\ access_time' = Touch(access_time, k)
            /\ cacheLast' = Done("get", k, l1_cache[k], FALSE, 0, JustSet(k))
            /\ UNCHANGED cachePc
       ELSE /\ cachePc' = [cachePc EXCEPT ![c] =
                   [IdleOp EXCEPT !.op = "get", !.key = k, !.stage = "redis",
                                  !.justSet = JustSet(k),
                                  !.raced = \E d \in CacheClients :
                                                /\ cachePc[d].op = "invalidate"
                                                /\ StartsWith(k, cachePc[d].key)]]
            /\ cacheLast' = NoCacheOp
            /\ UNCHANGED <<access_count, access_time>>
    /\ UNCHANGED <<l1_cache, l2, ttlElapsed, cacheCallers>>
    /\ UNCHANGED NotCache

\* line 320: the store runs GET cache:<key>
CacheGetRedis(c) ==
    /\ cachePc[c].op = "get" /\ cachePc[c].stage = "redis"
    /\ cachePc' = [cachePc EXCEPT ![c].value = l2[cachePc[c].key].text,
                                  ![c].stage = "reply"]
    /\ UNCHANGED <<l1_cache, access_time, access_count, l2, cacheLast, ttlElapsed, cacheCallers>>
    /\ UNCHANGED NotCache

\* lines 321-326: promotion of the value read and return
CacheGetReturn(c) ==
    /\ cachePc[c].op = "get" /\ cachePc[c].stage = "reply"
    /\ LET k == cachePc[c].key
           text == cachePc[c].value
           out == Promote(l1_cache, access_time, access_count, k, json_loads(text))
       IN IF text = Missing
          THEN /\ cacheLast' = Done("get", k, Missing, FALSE, 0, cachePc[c].justSet)
               /\ UNCHANGED <<l1_cache, access_time, access_count>>
          ELSE /\ l1_cache' = out.l1
               /\ access_time' = out.order
               /\ access_count' = out.counts
               /\ cacheLast' = Done("get", k, IF out.raised THEN Missing ELSE json_loads(text),
                                    out.raised, 0, cachePc[c].justSet)
    /\ cachePc' = [cachePc EXCEPT ![c] = IdleOp]
    /\ UNCHANGED <<l2, ttlElapsed, cacheCallers>>
    /\ UNCHANGED NotCache

\* set(), lines 330-337: the store runs SETEX cache:<key> ttl json
CacheSet(c, k, v, ttl) ==
    /\ c \in cacheCallers
    /\ cachePc[c].op = "idle"
    /\ LET t == IF ttl = NoTtlArg THEN default_ttl ELSE ttl
       IN /\ l2' = [l2 EXCEPT ![k] = [text |-> json_dumps(v), ttl |-> t]]
          /\ ttlElapsed' = [ttlElapsed EXCEPT ![k] = FALSE]
    /\ cachePc' = [cachePc EXCEPT ![c] = [IdleOp EXCEPT !.op = "set", !.key = k,
                                                        !.value = v, !.stage = "reply"]]
    /\ cacheLast' = NoCacheOp
    /\ UNCHANGED <<l1_cache, access_time, access_count, cacheCallers>>
    /\ UNCHANGED NotCache

\* line 340: await self._promote_to_l1(key, value), then set returns
CacheSetReturn(c) ==
    /\ cachePc[c].op = "set" /\ cachePc[c].stage = "reply"
    /\ LET k == cachePc[c].key
           v == cachePc[c].value
           out == Promote(l1_cache, access_time, access_count, k, v)
       IN /\ l1_cache' = out.l1
          /\ access_time' = out.order
          /\ access_count' = out.counts
          /\ cacheLast' = Done("set", k, v, out.raised, 0, Missing)
    /\ cachePc' = [cachePc EXCEPT ![c] = IdleOp]
    /\ UNCHANGED <<l2, ttlElapsed, cacheCallers>>
    /\ UNCHANGED NotCache

\* invalidate(), lines 345-350: the L1 keys that start with pattern are deleted
CacheInvalidate(c, p) ==
    /\ c \in cacheCallers
    /\ cachePc[c].op = "idle"
    /\ LET keys_to_remove == {k \in L1Keys : StartsWith(k, p)}
       IN /\ l1_cache' = [k \in CacheKeys |-> IF k \in keys_to_remove THEN Missing
                                              ELSE l1_cache[k]]
          /\ cachePc' = [d \in CacheClients |->
                 IF d = c
                 THEN [IdleOp EXCEPT !.op = "invalidate", !.key = p, !.stage = "redis",
                                     !.count = Cardinality(keys_to_remove)]
                 ELSE IF cachePc[d].op = "get" /\ StartsWith(cachePc[d].key, p)
                 THEN [cachePc[d] EXCEPT !.raced = TRUE]
                 ELSE cachePc[d]]
    /\ cacheLast' = NoCacheOp
    /\ UNCHANGED <<access_time, access_count, l2, ttlElapsed, cacheCallers>>
    /\ UNCHANGED NotCache

\* lines 353-367: the scan loop deletes the stored keys that match, invalidate returns
CacheInvalidateScan(c) ==
    /\ cachePc[c].op = "invalidate" /\ cachePc[c].stage = "redis"
    /\ LET p == cachePc[c].key
           keys == {k \in CacheKeys : l2[k] # NoL2Entry /\ ScanMatches(p, k)}
       IN /\ l2' = [k \in CacheKeys |-> IF k \in keys THEN NoL2Entry ELSE l2[k]]
          /\ cacheLast' = Done("invalidate", p, Missing, FALSE,
                               cachePc[c].count + Cardinality(keys), Missing)
    /\ cachePc' = [cachePc EXCEPT ![c] = IdleOp]
    /\ UNCHANGED <<l1_cache, access_time, access_count, ttlElapsed, cacheCallers>>
    /\ UNCHANGED NotCache

\* One tick of time: the store drops the keys whose time to live has run out
CacheTick ==
    /\ \/ \E k \in CacheKeys : l2[k] # NoL2Entry
       \/ cacheLast # NoCacheOp
    /\ l2' = [k \in CacheKeys |-> IF l2[k].ttl <= 1 THEN NoL2Entry
                                  ELSE [l2[k] EXCEPT !.ttl = @ - 1]]
    /\ ttlElapsed' = [k \in CacheKeys |-> ttlElapsed[k] \/ l2[k].ttl = 1]
    /\ cacheLast' = NoCacheOp
    /\ UNCHANGED <<l1_cache, access_time, access_count, cachePc, cacheCallers>>
    /\ UNCHANGED NotCache

CacheNext ==
    \/ \E c \in CacheClients, k \in CacheKeys : CacheGet(c, k)
    \/ \E c \in CacheClients : CacheGetRedis(c)
    \/ \E c \in CacheClients : CacheGetReturn(c)
    \/ \E c \in CacheClients, k \in CacheKeys, v \in SetValues, ttl \in TtlArgs :
           CacheSet(c, k, v, ttl)
    \/ \E c \in CacheClients : CacheSetReturn(c)
    \/ \E c \in CacheClients, p \in Patterns : CacheInvalidate(c, p)
    \/ \E c \in CacheClients : CacheInvalidateScan(c)
    \/ CacheTick

(***************************************************************************)
(* AgentOrchestrator.decompose_task  (agents/orchestrator_agent.py 22-86)  *)
(* The collaborator's reply is the input; steps are named by their         *)
(* position in "steps", a dependency or an entry of execution_order may    *)
(* name any of them.                                                       *)
(***************************************************************************)
MaxLlmSteps == 2

NoPlan == [steps |-> <<>>, execution_order |-> <<>>]

\* Sequences over S of length at most n
SeqsUpTo(S, n) == UNION {[1..m -> S] : m \in 0..n}

\* The JSON objects of plan shape with n steps that a reply can carry: nothing in
\* them is checked
LlmPlans(n) ==
    {[steps |-> st, execution_order |-> ord] :
        st \in [1..n -> [agent : {"claude"}, dependencies : SUBSET (1..n)]],
        ord \in SeqsUpTo(1..n, n)}

\* What call_claude does: raise, or reply with a text
Replies(n) ==
    {[kind |-> k, plan |-> NoPlan] : k \in {"raise", "no_json", "bad_json"}}
        \cup {[kind |-> "json", plan |-> p] : p \in LlmPlans(n)}

\* lines 59-75: the plan returned when the reply holds no {...}
SequentialFallback ==
    [steps |-> <<[agent |-> "claude", dependencies |-> {}],
                 [agent |-> "codex", dependencies |-> {1}]>>,
     execution_order |-> <<1, 2>>]

\* lines 78-86: the plan returned when call_claude or json.loads raised
SingleStepFallback ==
    [steps |-> <<[agent |-> "claude", dependencies |-> {}]>>,
     execution_order |-> <<1>>]

\* lines 49-86
decompose_task(reply) ==
    IF reply.kind = "json" THEN reply.plan
    ELSE IF reply.kind = "no_json" THEN SequentialFallback
    ELSE SingleStepFallback

DecomposeInit ==
    /\ \E n \in 1..MaxLlmSteps : llmReply \in Replies(n)
    /\ decomposed = NoPlan
    /\ decomposePc = "called"

DecomposeIdle ==
    /\ llmReply = [kind |-> "raise", plan |-> NoPlan]
    /\ decomposed = NoPlan
    /\ decomposePc = "idle"

DecomposeTaskReturn ==
    /\ decomposePc = "called"
    /\ decomposed' = decompose_task(llmReply)
    /\ decomposePc' = "returned"
    /\ UNCHANGED llmReply
    /\ UNCHANGED NotDecompose

DecomposeNext == DecomposeTaskReturn

(***************************************************************************)
(* run_orchestrator_agent in mode "parallel" (agents/orchestrator_agent.py *)
(* 199-231) with AgentOrchestrator.execute_parallel (164-182).  The steps  *)
(* of a group are tasks of one event loop: they start in the order of the  *)
(* group and their executors return or raise in any order.                 *)
(***************************************************************************)
MaxParSteps == 3

\* an id that execution_order may list although no step carries it
UnknownStepId == 0

NoStepResult == [step_id |-> UnknownStepId, status |-> "none"]

\* the steps of a plan with n steps: agents from A, dependencies empty or not
ParSteps(n, A) == [1..n -> [agent : A, dependencies : {{}, {1}}]]

\* step = next(s for s in plan["steps"] if s["id"] == step_id) finds no step
LookupRaises(p) ==
    \E i \in 1..Len(p.execution_order) : p.execution_order[i] \notin DOMAIN p.steps

\* mutant: the group being collected is dropped
FlushGroupDrops(groups, current) == groups

\* if current_group: parallel_groups.append(current_group)
FlushGroup(groups, current) ==
    IF current # <<>> THEN Append(groups, current) ELSE groups

\* lines 204-215 from position i of execution_order on
RECURSIVE GroupSteps(_, _, _, _)
GroupSteps(p, i, groups, current) ==
    IF i > Len(p.execution_order)
    THEN FlushGroup(groups, current)
    ELSE LET id == p.execution_order[i]
         IN IF p.steps[id].dependencies = {}
            THEN GroupSteps(p, i + 1, groups, Append(current, id))
            ELSE GroupSteps(p, i + 1, Append(FlushGroup(groups, current), <<id>>), <<>>)

\* lines 227-229 over the results of one group, in their order
RECURSIVE MergeCompleted(_, _)
MergeCompleted(ctx, rs) ==
    IF rs = <<>> THEN ctx
    ELSE MergeCompleted(PublishResult(ctx, Head(rs).step_id, Head(rs)), Tail(rs))

\* mutant: the group is taken to be over when its first step is
GroupDoneAny(status) == \E i \in 1..Len(status) : status[i] = "done"

\* gather returns, or the single execute_step returns
GroupDone(status) == \A i \in 1..Len(status) : status[i] = "done"

ParallelInitFor(plans) ==
    /\ parPlan \in plans
    /\ parPc = "called"
    /\ parGroups = <<>>
    /\ parIdx = 0
    /\ parStatus = <<>>
    /\ parGroupResults = <<>>
    /\ parAllResults = <<>>
    /\ parContext \in {EmptyDict, DictSet(EmptyDict, 2, "given")}
    /\ parContext0 = parContext

\* plans whose execution_order may repeat, omit and invent ids
GroupsInit ==
    \E n \in 1..MaxParSteps :
        ParallelInitFor({[steps |-> st, execution_order |-> ord] :
                            st \in ParSteps(n, {"claude"}),
                            ord \in SeqsUpTo(UnknownStepId..n, MaxParSteps)})

\* plans whose execution_order lists every step id once
ParallelInit ==
    \E n \in 1..MaxParSteps :
        ParallelInitFor({[steps |-> st, execution_order |-> [i \in 1..n |-> i]] :
                            st \in ParSteps(n, AgentNames)})

ParallelIdle ==
    /\ parPlan = NoPlan
    /\ parPc = "idle"
    /\ parGroups = <<>>
    /\ parIdx = 0
    /\ parStatus = <<>>
    /\ parGroupResults = <<>>
    /\ parAllResults = <<>>
    /\ parContext = EmptyDict
    /\ parContext0 = EmptyDict

\* lines 201-215; StopIteration inside the coroutine ends the run at line 258
ParallelBuildGroups ==
    /\ parPc = "called"
    /\ IF LookupRaises(parPlan)
       THEN /\ parPc' = "raised"
            /\ UNCHANGED <<parGroups, parIdx>>
       ELSE /\ parGroups' = GroupSteps(parPlan, 1, <<>>, <<>>)
            /\ parIdx' = 1
            /\ parPc' = "next_group"
    /\ UNCHANGED <<parPlan, parStatus, parGroupResults, parAllResults, parContext, parContext0>>
    /\ UNCHANGED NotParallel

\* line 219: the next group; its steps are handed to gather or to execute_step
ParallelGroupBegin ==
    /\ parPc = "next_group"
    /\ parIdx <= Len(parGroups)
    /\ parStatus' = [i \in 1..Len(parGroups[parIdx]) |-> "pending"]
    /\ parGroupResults' = [i \in 1..Len(parGroups[parIdx]) |-> NoStepResult]
    /\ parPc' = "running"
    /\ UNCHANGED <<parPlan, parGroups, parIdx, parAllResults, parContext, parContext0>>
    /\ UNCHANGED NotParallel

\* execute_step of the i-th step of the group up to the await of its executor
\* (lines 91-113); an unregistered agent name returns at once
ParallelStepStart(i) ==
    /\ parPc = "running"
    /\ i \in 1..Len(parStatus)
    /\ parStatus[i] = "pending"
    /\ \A j \in 1..(i - 1) : parStatus[j] # "pending"
    /\ LET id == parGroups[parIdx][i]
           step == parPlan.steps[id]
       IN IF step.agent \notin agents
          THEN /\ parStatus' = [parStatus EXCEPT ![i] = "done"]
               /\ parGroupResults' = [parGroupResults EXCEPT ![i] = StepUnknownAgent(id, step)]
          ELSE /\ parStatus' = [parStatus EXCEPT ![i] = "running"]
               /\ UNCHANGED parGroupResults
    /\ UNCHANGED <<parPlan, parPc, parGroups, parIdx, parAllResults, parContext, parContext0>>
    /\ UNCHANGED NotParallel

\* the executor of the i-th step returns or raises (lines 115-130)
ParallelStepFinish(i) ==
    /\ parPc = "running"
    /\ i \in 1..Len(parStatus)
    /\ parStatus[i] = "running"
    /\ LET id == parGroups[parIdx][i]
       IN \E r \in execute_step(id, parPlan.steps[id]) :
             parGroupResults' = [parGroupResults EXCEPT ![i] = r]
    /\ parStatus' = [parStatus EXCEPT ![i] = "done"]
    /\ UNCHANGED <<parPlan, parPc, parGroups, parIdx, parAllResults, parContext, parContext0>>
    /\ UNCHANGED NotParallel

\* lines 224-229: the group is over, its results are kept and merged
ParallelGroupMerge ==
    /\ parPc = "running"
    /\ GroupDone(parStatus)
    /\ parAllResults' = parAllResults \o parGroupResults
    /\ parContext' = MergeCompleted(parContext, parGroupResults)
    /\ parIdx' = parIdx + 1
    /\ parPc' = "next_group"
    /\ parStatus' = <<>>
    /\ parGroupResults' = <<>>
    /\ UNCHANGED <<parPlan, parGroups, parContext0>>
    /\ UNCHANGED NotParallel

\* line 231: no group is left
ParallelReturn ==
    /\ parPc = "next_group"
    /\ parIdx > Len(parGroups)
    /\ parPc' = "returned"
    /\ UNCHANGED <<parPlan, parGroups, parIdx, parStatus, parGroupResults, parAllResults,
                   parContext, parContext0>>
    /\ UNCHANGED NotParallel

ParallelNext ==
    \/ ParallelBuildGroups
    \/ ParallelGroupBegin
    \/ \E i \in 1..MaxParSteps : ParallelStepStart(i)
    \/ \E i \in 1..MaxParSteps : ParallelStepFinish(i)
    \/ ParallelGroupMerge
    \/ ParallelReturn

(***************************************************************************)
(* Specifications                                                          *)
(***************************************************************************)
SagaIdle ==
    /\ sagaSteps = <<>>
    /\ completed_steps = <<>>
    /\ sagaPc = "idle"
    /\ sagaIdx = 0
    /\ sagaRun = MaxSagaRuns
    /\ sagaStarted = <<>>
    /\ sagaCompleted = <<>>
    /\ compensations = <<>>
    /\ eventLog = <<>>
    /\ eventsBefore = 0
    /\ sagaOutcome = "none"
    /\ sagaFailure = [step |-> 0, cause |-> "none"]
    /\ sagaRaised = 0

CBIdle == CBInitFor({})

\* AgentOrchestrator.execute_plan on every plan of Plans
InitPlanRun ==
    /\ PlanInit /\ TasksInit /\ SagaIdle /\ CBIdle /\ LockInit /\ BucketIdle
    /\ WindowIdle /\ CacheIdle /\ DecomposeIdle /\ ParallelIdle
SpecPlan == InitPlanRun /\ [][PlanNext]_vars

\* MCPServerEnhanced: handle_rpc calls, cancel_task calls and the sweeper
InitTasksRun ==
    /\ PlanIdle /\ TasksInit /\ SagaIdle /\ CBIdle /\ LockInit /\ BucketIdle
    /\ WindowIdle /\ CacheIdle /\ DecomposeIdle /\ ParallelIdle
SpecTasks == InitTasksRun /\ [][TasksNext]_vars

\* SagaOrchestrator: execute() calls on one instance
InitSagaRun ==
    /\ PlanIdle /\ TasksInit /\ SagaInit /\ CBIdle /\ LockInit /\ BucketIdle
    /\ WindowIdle /\ CacheIdle /\ DecomposeIdle /\ ParallelIdle
SpecSaga == InitSagaRun /\ [][SagaNext]_vars

\* CircuitBreaker used by one caller at a time
InitCBSeqRun ==
    /\ PlanIdle /\ TasksInit /\ SagaIdle /\ CBInitSeq /\ LockInit
    /\ BucketIdle /\ WindowIdle /\ CacheIdle /\ DecomposeIdle /\ ParallelIdle
SpecCBSeq == InitCBSeqRun /\ [][CBNext]_vars

\* CircuitBreaker used by concurrent callers
InitCBRun ==
    /\ PlanIdle /\ TasksInit /\ SagaIdle /\ CBInit /\ LockInit /\ BucketIdle
    /\ WindowIdle /\ CacheIdle /\ DecomposeIdle /\ ParallelIdle
SpecCB == InitCBRun /\ [][CBNext]_vars

\* DistributedLock instances contending for one key
InitLockRun ==
    /\ PlanIdle /\ TasksInit /\ SagaIdle /\ CBIdle /\ LockInit /\ BucketIdle
    /\ WindowIdle /\ CacheIdle /\ DecomposeIdle /\ ParallelIdle
SpecLock == InitLockRun /\ [][LockNext]_vars

\* RateLimiter.check_token_bucket called by concurrent callers on one key
InitBucketRun ==
    /\ PlanIdle /\ TasksInit /\ SagaIdle /\ CBIdle /\ LockInit /\ BucketInit
    /\ WindowIdle /\ CacheIdle /\ DecomposeIdle /\ ParallelIdle
SpecBucket == InitBucketRun /\ [][BucketNext]_vars

\* RateLimiter.check_sliding_window called by one caller at a time
InitWindowSeqRun ==
    /\ PlanIdle /\ TasksInit /\ SagaIdle /\ CBIdle /\ LockInit /\ BucketIdle
    /\ WindowInitSeq /\ CacheIdle /\ DecomposeIdle /\ ParallelIdle
SpecWindowSeq == InitWindowSeqRun /\ [][WindowNext]_vars

\* RateLimiter.check_sliding_window called by concurrent callers on one key
InitWindowRun ==
    /\ PlanIdle /\ TasksInit /\ SagaIdle /\ CBIdle /\ LockInit /\ BucketIdle
    /\ WindowInit /\ CacheIdle /\ DecomposeIdle /\ ParallelIdle
SpecWindow == InitWindowRun /\ [][WindowNext]_vars

\* MultiLayerCache used by one client, one operation at a time
InitCacheSeqRun ==
    /\ PlanIdle /\ TasksInit /\ SagaIdle /\ CBIdle /\ LockInit /\ BucketIdle
    /\ WindowIdle /\ CacheInitSeq /\ DecomposeIdle /\ ParallelIdle
SpecCacheSeq == InitCacheSeqRun /\ [][CacheNext]_vars

InitCacheRun ==
    /\ PlanIdle /\ TasksInit /\ SagaIdle /\ CBIdle /\ LockInit /\ BucketIdle
    /\ WindowIdle /\ CacheInit /\ DecomposeIdle /\ ParallelIdle
\* Concurrent callers of one cache, one value and the default ttl, no clock
CacheRaceNext ==
    \/ \E c \in CacheClients, k \in CacheKeys : CacheGet(c, k)
    \/ \E c \in CacheClients : CacheGetRedis(c)
    \/ \E c \in CacheClients : CacheGetReturn(c)
    \/ \E c \in CacheClients, k \in CacheKeys : CacheSet(c, k, "a", NoTtlArg)
    \/ \E c \in CacheClients : CacheSetReturn(c)
    \/ \E c \in CacheClients, p \in Patterns : CacheInvalidate(c, p)
    \/ \E c \in CacheClients : CacheInvalidateScan(c)

SpecCache == InitCacheRun /\ [][CacheRaceNext]_vars

\* AgentOrchestrator.decompose_task on every reply of Replies
InitDecomposeRun ==
    /\ PlanIdle /\ TasksInit /\ SagaIdle /\ CBIdle /\ LockInit /\ BucketIdle
    /\ WindowIdle /\ CacheIdle /\ DecomposeInit /\ ParallelIdle
SpecDecompose == InitDecomposeRun /\ [][DecomposeNext]_vars

\* The grouping of run_orchestrator_agent's parallel mode on every plan
InitGroupsRun ==
    /\ PlanIdle /\ TasksInit /\ SagaIdle /\ CBIdle /\ LockInit /\ BucketIdle
    /\ WindowIdle /\ CacheIdle /\ DecomposeIdle /\ GroupsInit
SpecGroups == InitGroupsRun /\ [][ParallelBuildGroups]_vars

\* run_orchestrator_agent's parallel mode on plans with a well-formed order
InitParallelRun ==
    /\ PlanIdle /\ TasksInit /\ SagaIdle /\ CBIdle /\ LockInit /\ BucketIdle
    /\ WindowIdle /\ CacheIdle /\ DecomposeIdle /\ ParallelInit
SpecParallel == InitParallelRun /\ [][ParallelNext]_vars

\* MCPServerEnhanced without cancel_task calls from clients: a call ends when
\* its agent returns or raises, or the sweeper cancels it
TasksSweptNext ==
    \/ \E payload \in Payloads : HandleRpcBegin(payload)
    \/ \E t \in TaskIds : HandleRpcAgentReturn(t)
    \/ \E t \in TaskIds : HandleRpcAgentRaise(t)
    \/ Sweep
    \/ TaskTick

\* The sweeper loop of _cleanup_expired_tasks is never starved
SpecTasksFair == InitTasksRun /\ [][TasksSweptNext]_vars /\ WF_vars(Sweep)

\* The same on a server whose task_history is at the cap
InitTasksFullRun ==
    /\ PlanIdle /\ TasksFullInit /\ SagaIdle /\ CBIdle /\ LockInit /\ BucketIdle
    /\ WindowIdle /\ CacheIdle /\ DecomposeIdle /\ ParallelIdle
SpecTasksFull == InitTasksFullRun /\ [][TasksSweptNext]_vars

Spec == SpecTasks

(***************************************************************************)
(* Properties                                                              *)
(***************************************************************************)
BreakerVars == <<state, failure_count, success_count, last_failure_time>>

\* C1: in sequential mode a failing step never aborts the run: execute_plan
\* never raises and returns one result per id of execution_order, also when
\* a later step depends on the failed step.
C1_StepFailureNeverAborts ==
    /\ planPc # "raised"
    /\ planPc = "returned" => resultKeys = plan.execution_order

\* C2: once a task record is completed, failed or cancelled its status never
\* changes again.
C2_TerminalStatusIsFinal ==
    [][\A t \in DOMAIN taskRecord :
          taskRecord[t].status \in Terminal
            => taskRecord'[t].status = taskRecord[t].status]_vars

\* C3: on a freshly built orchestrator, when the action of step k fails the
\* compensations run are those of steps k-1, k-2, ..., 1, in that order and
\* once each; step k and the later steps are not compensated.
C3_CompensationReverseOrder ==
    (sagaRun = 1 /\ sagaFailure.step # 0) =>
        LET k == sagaFailure.step
            expected == [i \in 1..(k - 1) |-> k - i]
        IN /\ sagaCompleted = [i \in 1..(k - 1) |-> i]
           /\ Len(compensations) <= Len(expected)
           /\ compensations = SubSeq(expected, 1, Len(compensations))
           /\ sagaOutcome = "raised" => compensations = expected

C3_Witness ==
    /\ sagaRun = 1
    /\ sagaOutcome = "raised"
    /\ sagaFailure.step = 3
    /\ compensations = <<2, 1>>

\* C4: once an action has raised or timed out no later action is started,
\* execute() does not return normally, and it raises the saga failure naming
\* the failing step only when a compensation has been attempted for every
\* entry of completed_steps.
C4_FailureRaisedAfterSweep ==
    /\ sagaFailure.step # 0 =>
          /\ sagaStarted = [i \in 1..sagaFailure.step |-> i]
          /\ sagaOutcome # "returned"
          /\ sagaPc = "idle" => sagaOutcome = "raised"
    /\ sagaOutcome = "raised" =>
          /\ sagaFailure.step # 0
          /\ sagaRaised = sagaFailure.step
          /\ Len(compensations) = Len(completed_steps)
          /\ \A j \in 1..Len(completed_steps) :
                \E i \in 1..Len(compensations) : compensations[i] = completed_steps[j]
    /\ sagaOutcome = "returned" => sagaFailure.step = 0 /\ compensations = <<>>

C4_Witness ==
    /\ sagaOutcome = "raised"
    /\ sagaFailure.cause = "timeout"
    /\ sagaRaised = 2
    /\ compensations = <<1>>

\* C5: with calls made one at a time from CLOSED with failure_count 0, the
\* breaker leaves CLOSED only for OPEN and exactly at the recorded failure
\* that makes failure_threshold failures since the last success; every
\* recorded success sets failure_count to 0.
C5_OpensAtThreshold ==
    /\ [](state = CLOSED => consecFailures < failure_threshold)
    /\ [][(state = CLOSED /\ state' # CLOSED)
             => (state' = OPEN /\ consecFailures' = failure_threshold)]_vars
    /\ [][(state = CLOSED /\ consecFailures' > consecFailures
              /\ consecFailures' >= failure_threshold) => state' = OPEN]_vars
    /\ [][\A c \in Callers :
             (callPc[c] = "on_success" /\ callPc'[c] = "idle") => failure_count' = 0]_vars

C5_Witness ==
    /\ state = OPEN
    /\ consecFailures = failure_threshold
    /\ failure_count = failure_threshold
    /\ success_count = 0

\* C6: with calls made one at a time, an admission check in OPEN made more
\* than recovery_timeout after last_failure_time moves to HALF_OPEN and
\* invokes the action; in HALF_OPEN the success that makes success_threshold
\* successes moves to CLOSED with success_count 0, earlier ones stay in
\* HALF_OPEN, and one failure moves to OPEN.
C6_HalfOpenTransitions ==
    /\ [][\A c \in Callers :
             (/\ callPc[c] = "admit" /\ callPc'[c] # "admit"
              /\ state = OPEN
              /\ last_failure_time # NoTime
              /\ cbNow - last_failure_time > recovery_timeout)
               => (state' = HALF_OPEN /\ callPc'[c] = "inflight")]_vars
    /\ [][\A c \in Callers :
             (callPc[c] = "on_success" /\ callPc'[c] = "idle" /\ state = HALF_OPEN)
               => IF consecSuccesses' >= success_threshold
                  THEN state' = CLOSED /\ success_count' = 0
                  ELSE state' = HALF_OPEN]_vars
    /\ [][\A c \in Callers :
             (callPc[c] = "on_failure" /\ callPc'[c] = "idle" /\ state = HALF_OPEN)
               => state' = OPEN]_vars

C6_Witness ==
    /\ state = CLOSED
    /\ consecSuccesses = success_threshold
    /\ success_count = 0

\* C7: an admission check made in OPEN no more than recovery_timeout after
\* last_failure_time raises the circuit-open error, does not invoke the
\* action and changes none of state, failure_count, success_count and
\* last_failure_time.
C7_OpenRejectsWithoutEffect ==
    [][\A c \in Callers :
          (/\ callPc[c] = "admit" /\ callPc'[c] # "admit"
           /\ state = OPEN
           /\ cbNow - last_failure_time <= recovery_timeout)
            => (/\ callPc'[c] = "idle"
                /\ callResult'[c] = "circuit_open"
                /\ BreakerVars' = BreakerVars)]_vars

C7_Witness ==
    /\ state = OPEN
    /\ \E c \in Callers : callResult[c] = "circuit_open" /\ callPc[c] = "idle"
    /\ cbNow - last_failure_time = recovery_timeout

\* a caller whose admission check has passed and whose outcome is not recorded yet
Admitted(c) == callPc[c] \in {"inflight", "want_success", "want_failure"}

\* C8 as stated: between a call's admission check and the recording of its
\* outcome no other caller's admission check or outcome recording takes place.
C8_NoSectionBetweenCheckAndRecord ==
    [][\A c, d \in Callers :
          (c # d /\ Admitted(c)) => ~(callPc[d] \in InSection /\ callPc'[d] \notin InSection)]_vars

\* C8 amended: every admission check and every outcome recording runs as one
\* exclusive section: at most one caller is inside a section, it holds the
\* lock, and the breaker's fields change only in the step that ends the
\* lock holder's section.
C8_SectionsExclusive ==
    /\ [](\A c, d \in Callers : (callPc[c] \in InSection /\ callPc[d] \in InSection) => c = d)
    /\ [](\A c \in Callers : callPc[c] \in InSection => cbLock = c)
    /\ [][BreakerVars' # BreakerVars
            => /\ cbLock \in Callers
               /\ callPc[cbLock] \in InSection
               /\ callPc'[cbLock] \notin InSection
               /\ \A d \in Callers \ {cbLock} : callPc'[d] = callPc[d]]_vars

C8_Witness ==
    \E c, d \in Callers :
        /\ c # d
        /\ Admitted(c)
        /\ callPc[d] = "on_failure"
        /\ state = CLOSED

\* C9: an acquire returns true exactly when the key is absent, and then the
\* key holds the acquirer's identifier, so of the instances acquiring while
\* the key is there at most one has been told true; a release by the
\* instance whose identifier the key holds deletes the key, after which the
\* next acquire finds it absent and succeeds.
C9_OneAcquirerWins ==
    /\ Cardinality(winners) <= 1
    /\ store # Absent => winners = {store}
    /\ lastOp.op = "acquire" =>
          /\ lastOp.result <=> (lastOp.before = Absent)
          /\ lastOp.result => store = identifier(lastOp.inst)
          /\ ~lastOp.result => store = lastOp.before
    /\ (lastOp.op = "release" /\ lastOp.before = identifier(lastOp.inst)) =>
          (lastOp.result /\ store = Absent)

C9_Witness ==
    /\ lastOp.op = "acquire"
    /\ ~lastOp.result
    /\ lastOp.before # Absent
    /\ lastOp.before # identifier(lastOp.inst)
    /\ lastOp.before \in holding

\* C10: a release by an instance whose identifier the key does not hold
\* returns false and leaves the key, its value and its time to live as they
\* were; release deletes the key only when it holds the releaser's identifier.
C10_ReleaseOnlyOwnKey ==
    lastOp.op = "release" =>
        /\ lastOp.before # identifier(lastOp.inst) =>
              (~lastOp.result /\ store = lastOp.before /\ storeTtl = lastOp.ttlBefore)
        /\ lastOp.result => lastOp.before = identifier(lastOp.inst)

C10_Witness ==
    /\ lastOp.op = "release"
    /\ lastOp.held
    /\ lastOp.before \notin {Absent, identifier(lastOp.inst)}
    /\ ~lastOp.result
    /\ store = lastOp.before

\* C11: token bucket, calls evaluated back to back at one instant (same now, no
\* tick in between). On a fresh key exactly capacity of them are allowed and the
\* next is denied; on an emptied bucket whose last allowed call lies exactly one
\* refill_period back, exactly min(refill_rate, capacity) are allowed before the
\* next denial.
C11_BurstThenRefill ==
    rlRun.calls > 0 =>
        /\ rlRun.fresh => rlRun.allowed = Min(rlRun.calls, capacity)
        /\ (~rlRun.fresh /\ rlRun.tokens = 0 /\ rlRun.elapsed = refill_period)
               => rlRun.allowed = Min(rlRun.calls, Min(refill_rate, capacity))

C11_Witness ==
    /\ rlRun.calls > 0 /\ ~rlRun.fresh
    /\ rlRun.tokens = 0 /\ rlRun.elapsed = refill_period
    /\ rlRun.allowed = Min(refill_rate, capacity)
    /\ rlRun.calls = rlRun.allowed + 1
    /\ \E c \in rlCallers : rlPc[c] = "idle" /\ rlResult[c] = "denied"

\* C12: token bucket under concurrent callers. The stored token count stays within
\* 0..capacity, and since the last evaluation that refilled the bucket to k tokens
\* exactly k minus the stored count calls were allowed, so never more than k.
C12_AtomicAdmission ==
    bucket.present =>
        /\ bucket.tokens \in 0..capacity
        /\ rlAllowed <= rlBase
        /\ bucket.tokens = rlBase - rlAllowed

C12_Witness ==
    \E c \in rlCallers, d \in rlCallers :
        /\ c # d
        /\ rlPc[c] = "idle" /\ rlResult[c] = "allowed"
        /\ rlPc[d] = "sent" /\ rlArgNow[d] = bucket.last_refill
        /\ bucket.present /\ bucket.tokens = 0 /\ rlAllowed = rlBase

C14_NeverExceedsLimit ==
    \A t \in SwTimes : InWindow(swAllowed, t) <= limit

\* C15: MultiLayerCache, one operation at a time. Every set(key, v) returns without
\* raising, and a get(key) called right after a set(key, v) has returned, with
\* nothing in between, returns v.
C15_GetAfterSetReturnsValue ==
    /\ cacheLast.op = "set" => ~cacheLast.raised
    /\ (cacheLast.op = "get" /\ cacheLast.justSet # Missing)
           => (~cacheLast.raised /\ cacheLast.value = cacheLast.justSet)

\* C16: MultiLayerCache. Once the ttl of the last set of a key has run out, with no
\* further set of that key, get(key) returns none.
C16_GetAfterTtlReturnsNone ==
    (cacheLast.op = "get" /\ ttlElapsed[cacheLast.key])
        => (~cacheLast.raised /\ cacheLast.value = Missing)

\* C17: MultiLayerCache.invalidate(prefix) with no other operation under way. Its
\* L1 step removes exactly the L1 keys that start with prefix, and when it returns
\* no key that starts with prefix is left in L1 or L2 and every other key of L2 is
\* as it was before the scan.
C17_InvalidateExact ==
    [][\A c \in cacheCallers :
          /\ (cachePc[c].op = "idle" /\ cachePc'[c].op = "invalidate") =>
                \A k \in CacheKeys :
                    l1_cache'[k] = IF StartsWith(k, cachePc'[c].key) THEN Missing
                                   ELSE l1_cache[k]
          /\ (cachePc[c].op = "invalidate" /\ cachePc'[c].op = "idle") =>
                \A k \in CacheKeys :
                    IF StartsWith(k, cachePc[c].key)
                    THEN l1_cache'[k] = Missing /\ l2'[k] = NoL2Entry
                    ELSE l1_cache'[k] = l1_cache[k] /\ l2'[k] = l2[k]]_vars

\* C18: execute_plan on a context that held no step-result entry. When it has
\* ended, for every step s and every dependency d of s, the context holds an entry
\* for d exactly if d has a result whose status is completed.
C18_ContextHoldsCompletedDeps ==
    (planPc \in {"returned", "raised"} /\ context0 = EmptyDict) =>
        \A s \in DOMAIN plan.steps : \A d \in plan.steps[s].dependencies :
            d \in DOMAIN context <=>
                (d \in DOMAIN results /\ results[d].status = "completed")

C18_Witness ==
    /\ planPc \in {"returned", "raised"} /\ context0 = EmptyDict
    /\ \E s \in DOMAIN plan.steps : \E d \in plan.steps[s].dependencies,
                                       e \in plan.steps[s].dependencies :
          /\ d \in DOMAIN results /\ results[d].status = "completed"
          /\ d \in DOMAIN context
          /\ e \in DOMAIN results /\ results[e].status = "error"
          /\ e \notin DOMAIN context

\* C20: a step whose agent name is not registered. Its result is an error, no
\* executor was awaited for it, it put nothing into the context, and execute_plan
\* does not end with an exception on its account: the steps after it still run.
C20_UnknownAgentIsolated ==
    \A id \in DOMAIN results :
        plan.steps[id].agent \notin agents =>
            /\ results[id].status = "error"
            /\ id \notin invoked
            /\ id \in DOMAIN context <=> id \in DOMAIN context0
            /\ ~(/\ planPc = "raised"
                 /\ id \in DepsRaising(plan.steps[plan.execution_order[planIdx]]))

\* execution_order is a permutation of the step ids and every id comes after all
\* of its dependencies
ValidPlan(p) ==
    /\ Len(p.execution_order) = Len(p.steps)
    /\ {p.execution_order[i] : i \in DOMAIN p.execution_order} = DOMAIN p.steps
    /\ \A i \in DOMAIN p.execution_order :
          \A d \in p.steps[p.execution_order[i]].dependencies :
              \E j \in 1..(i - 1) : p.execution_order[j] = d

\* C19: every plan decompose_task returns, parsed from the reply or a fallback, has
\* an execution_order that is a permutation of its step ids in which every id
\* comes after all of its dependencies.
C19_ReturnedPlanIsOrdered ==
    decomposePc = "returned" => ValidPlan(decomposed)

\* t is listed in task_history
InHistory(t) == \E i \in 1..Len(task_history) : task_history[i] = t

\* C21: a sweep takes every active task that is older than the ceiling out of
\* active_tasks and leaves it in task_history with status cancelled; with the
\* sweeper scheduled fairly, again and again no active task is older than the
\* ceiling, so none stays active.
C21_SweepCancelsExpired ==
    /\ [][Sweep =>
            \A t \in active_tasks :
                now - taskRecord[t].start_time > TASK_TIMEOUT =>
                    /\ t \notin active_tasks'
                    /\ \E i \in 1..Len(task_history') : task_history'[i] = t
                    /\ taskRecord'[t].status = "cancelled"]_vars
    /\ []<>({t \in active_tasks : now - taskRecord[t].start_time > TASK_TIMEOUT} = {})

\* no cancel_task call was made, and the sweeper has cancelled a call in flight
C21_Witness ==
    /\ cancelReturned.task_id = 0
    /\ \E t \in DOMAIN taskRecord :
          /\ rpcPc[t] = "inflight"
          /\ t \notin active_tasks
          /\ InHistory(t)
          /\ taskRecord[t].status = "cancelled"
          /\ now - taskRecord[t].start_time > TASK_TIMEOUT

\* C22: cancel_task(t) returns true exactly when t is in active_tasks at the
\* call, and then t leaves active_tasks and its record is appended to
\* task_history with status cancelled; when it returns false (t unknown or
\* already terminal) active_tasks, task_history and the records are as before,
\* so a second cancel of the same id changes nothing.
C22_CancelIdempotent ==
    [][cancelReturned' # cancelReturned =>
          LET t == cancelReturned'.task_id
          IN /\ cancelReturned'.value <=> t \in active_tasks
             /\ cancelReturned'.value =>
                   /\ active_tasks' = active_tasks \ {t}
                   /\ task_history' = Append(task_history, t)
                   /\ taskRecord'[t].status = "cancelled"
                   /\ historyOld' = historyOld
             /\ ~cancelReturned'.value =>
                   UNCHANGED <<active_tasks, task_history, taskRecord, historyOld>>]_vars

\* the second cancel of an id that the first cancel has moved to history
C22_Witness ==
    \E t \in DOMAIN taskRecord :
        /\ cancelReturned = [task_id |-> t, value |-> FALSE]
        /\ taskRecord[t].status = "cancelled"
        /\ InHistory(t)

\* C23: every handle_rpc call that has returned a response has a record in
\* task_history under the returned task_id.
C23_EveryResponseHasRecord ==
    \A t \in TaskIds : rpcPc[t] = "returned" => InHistory(t)

\* C24: the response of handle_rpc has success=true exactly when the agent
\* call returned (the record then carries the result), and success=false
\* otherwise.
C24_SuccessIffAgentReturned ==
    \A t \in TaskIds :
        rpcPc[t] = "returned" =>
            (rpcResponse[t].success
               <=> (t \in DOMAIN taskRecord /\ "result" \in DOMAIN taskRecord[t]))

\* C25: when call_claude raises or its reply cannot be parsed, decompose_task
\* returns the two-step plan: a step without dependencies, a step that
\* depends on it, and execution_order listing the two in that order.
C25_FallbackIsTwoStep ==
    (decomposePc = "returned" /\ llmReply.kind # "json") =>
        /\ Len(decomposed.steps) = 2
        /\ decomposed.steps[1].dependencies = {}
        /\ decomposed.steps[2].dependencies = {1}
        /\ decomposed.execution_order = <<1, 2>>

\* the groups one after the other
RECURSIVE Flatten(_)
Flatten(groups) == IF groups = <<>> THEN <<>> ELSE Head(groups) \o Flatten(Tail(groups))

\* a group all of whose steps have no dependencies
FreeGroup(g) == \A i \in 1..Len(g) : parPlan.steps[g[i]].dependencies = {}

\* C26: the groups built in parallel mode, one after the other, are
\* execution_order; a step with dependencies is alone in its group, and
\* consecutive steps without dependencies are in one group, so no two
\* neighbouring groups are both free of dependencies.
C26_GroupsPartitionOrder ==
    parPc \in {"next_group", "running", "returned"} =>
        /\ Flatten(parGroups) = parPlan.execution_order
        /\ \A g \in 1..Len(parGroups) :
              /\ parGroups[g] # <<>>
              /\ ~FreeGroup(parGroups[g]) => Len(parGroups[g]) = 1
        /\ \A g \in 1..(Len(parGroups) - 1) :
              ~(FreeGroup(parGroups[g]) /\ FreeGroup(parGroups[g + 1]))

\* groups were built from an order that repeats an id: a run of free steps, a
\* step with dependencies, and free steps after it
C26_Witness ==
    /\ parPc = "next_group"
    /\ Len(parGroups) >= 3
    /\ Len(parPlan.execution_order) > Cardinality({parPlan.execution_order[i] :
                                                     i \in 1..Len(parPlan.execution_order)})
    /\ \E g \in 1..Len(parGroups) : ~FreeGroup(parGroups[g])
    /\ FreeGroup(parGroups[1])

\* the groups before the current one
EarlierGroups == SubSeq(parGroups, 1, parIdx - 1)

\* C27: while a group runs, every step of the earlier groups has a result in
\* all_results, completed or error, the context is the given context with
\* the completed results of the earlier groups merged in order and nothing
\* of the current group; the run does not end with an exception.
C27_GroupBoundariesOrdered ==
    /\ parPc # "raised"
    /\ parPc = "running" =>
          /\ Len(parAllResults) = Len(Flatten(EarlierGroups))
          /\ \A k \in 1..Len(parAllResults) :
                /\ parAllResults[k].step_id = Flatten(EarlierGroups)[k]
                /\ parAllResults[k].status \in {"completed", "error"}
          /\ parContext = MergeCompleted(parContext0, parAllResults)

\* the second step of a group has completed while the first is still running,
\* after an earlier group one of whose steps raised
C27_Witness ==
    /\ parPc = "running"
    /\ Len(parStatus) >= 2
    /\ parStatus[1] = "running"
    /\ parStatus[2] = "done"
    /\ parGroupResults[2].status = "completed"
    /\ parGroups[parIdx][2] \notin DOMAIN parContext
    /\ \E k \in 1..Len(parAllResults) :
          parAllResults[k].status = "error" /\ parAllResults[k].error = "raised"

\* C28 as stated: task_history never holds more than the cap, in any state.
C28_HistoryNeverExceedsCap == HistoryLen <= HISTORY_CAP

\* C28 amended: at the end of a sweep task_history holds at most the cap; the
\* records dropped are the oldest ones, only as many as needed, and the
\* records listed before the sweep stay in their order.
C28_SweepCutsToCap ==
    [][Sweep =>
          /\ historyOld' + Len(task_history') <= HISTORY_CAP
          /\ historyOld' + Len(task_history')
                = Min(HISTORY_CAP, historyOld + Len(task_history'))
          /\ Len(task_history') >= Len(task_history)
          /\ SubSeq(task_history', 1, Len(task_history)) = task_history]_vars

\* a sweep has dropped old records to make room for newer ones
C28_Witness ==
    /\ HistoryLen = HISTORY_CAP
    /\ historyOld < HISTORY_CAP
    /\ task_history # <<>>

\* C29: every record in task_history carries a result or an error.
C29_HistoryRecordsCarryOutcome ==
    \A i \in 1..Len(task_history) :
        \/ "result" \in DOMAIN taskRecord[task_history[i]]
        \/ "error" \in DOMAIN taskRecord[task_history[i]]

\* C30: the renewal loop resets the time to live of the key only when the key
\* holds its own identifier at that moment.
C30_RenewsOnlyOwnKey ==
    [][\A i \in Instances :
          (renewPc[i] = "got_own" /\ renewPc'[i] = "sleeping" /\ storeTtl' # storeTtl)
             => store = identifier(i)]_vars

\* C31: MultiLayerCache with l1_size >= 1. After any sequence of get, set and
\* invalidate, L1 holds at most l1_size entries.
C31_L1WithinSize ==
    Cardinality(L1Keys) <= l1_size

\* A set has just put its key into an L1 that is full, and a key set earlier is no
\* longer in L1
C31_Witness ==
    /\ cacheLast.op = "set" /\ ~cacheLast.raised
    /\ l1_cache[cacheLast.key] # Missing
    /\ Cardinality(L1Keys) = l1_size
    /\ \E k \in CacheKeys \ L1Keys : l2[k] # NoL2Entry

\* C32: MultiLayerCache. A promotion into L1 (by set, or by get on an L2 hit) that
\* finds L1 at capacity evicts exactly one entry, the one in L1 with the oldest
\* last access, and then holds the promoted key.
C32_EvictsOldestInL1 ==
    [][\A c \in cacheCallers :
          LET k == cachePc[c].key
              inL1 == SelectSeq(access_time, LAMBDA x : x \in L1Keys)
          IN (/\ cachePc[c].stage = "reply" /\ cachePc'[c].op = "idle"
              /\ (cachePc[c].op = "set" \/ cachePc[c].value # Missing)
              /\ Cardinality(L1Keys) >= l1_size)
             => /\ ~cacheLast'.raised
                /\ inL1 # <<>>
                /\ {x \in CacheKeys : l1_cache'[x] # Missing}
                       = (L1Keys \ {Head(inL1)}) \cup {k}]_vars

\* C37: MultiLayerCache. After any sequence of get, set and invalidate the keys
\* of access_time and of access_count are exactly the keys of l1_cache.
C37_BookkeepingTracksL1 ==
    /\ {access_time[i] : i \in 1..Len(access_time)} = L1Keys
    /\ {k \in CacheKeys : access_count[k] > 0} = L1Keys

\* C38: MultiLayerCache under concurrent callers. A get(key) that missed L1 and
\* was in flight while an invalidate(prefix) with key starting with prefix ran
\* does not put the key into L1.
C38_NoRepromotionAfterInvalidate ==
    [][\A c \in cacheCallers :
          (/\ cachePc[c].op = "get" /\ cachePc[c].stage = "reply"
           /\ cachePc'[c].op = "idle"
           /\ cachePc[c].raced)
          => l1_cache'[cachePc[c].key] = Missing]_vars

\* C39: check_token_bucket with timestamps that reach the store out of order. In
\* every evaluation of the script the refill amount is not negative, an allowed
\* call stores the tokens available minus one, and the stored last_refill does
\* not move backwards.
C39_OutOfOrderTimestamps ==
    [][\A c \in rlCallers :
          (rlPc[c] = "sent" /\ rlPc'[c] = "idle") =>
              LET t == rlArgNow[c]
                  add == TokensToAdd(bucket, t)
                  available == Min(capacity, HashTokens(bucket) + IF add > 0 THEN add ELSE 0)
              IN /\ add >= 0
                 /\ rlResult'[c] = "allowed" => bucket'.tokens = available - 1
                 /\ (bucket.present /\ bucket'.present)
                        => bucket'.last_refill >= bucket.last_refill]_vars

\* C36: under any interleaving of handle_rpc, cancel_task and the sweeper every
\* task id is in at most one of active_tasks and task_history, and is listed in
\* task_history at most once.
C36_OneRecordPerTask ==
    \A t \in DOMAIN taskRecord :
        /\ ~(t \in active_tasks /\ InHistory(t))
        /\ Cardinality({i \in 1..Len(task_history) : task_history[i] = t}) <= 1

\* The compensation events of the current execute() call, in log order
CompensationEvents ==
    SelectSeq(eventLog, LAMBDA e : e.type \in {"SagaStepCompensated", "SagaCompensationFailed"})

\* C33: saga rollback. Every compensation attempted has one event for its step,
\* compensated or compensation_failed, and the sweep goes on after a
\* compensation_failed event: when execute() raises, every entry of
\* completed_steps has its event, in reverse order.
C33_FailedCompensationKeepsSweeping ==
    /\ Len(CompensationEvents) = Len(compensations)
    /\ \A i \in 1..Len(compensations) : CompensationEvents[i].step = compensations[i]
    /\ sagaPc = "compensating" =>
          /\ sagaIdx = Len(compensations) + 1
          /\ compensations = SubSeq(Reverse(completed_steps), 1, Len(compensations))
    /\ sagaOutcome = "raised" => compensations = Reverse(completed_steps)

\* The compensation of step 2 has failed and that of step 1 has run after it
C33_Witness ==
    /\ sagaOutcome = "raised"
    /\ Len(CompensationEvents) = 2
    /\ CompensationEvents[1] = Event("SagaCompensationFailed", 2)
    /\ CompensationEvents[2].step = 1

\* C34: when the action of a step exceeds its timeout, the error execute() raises
\* is a timeout error and differs from every error it raises when the action of
\* that step raises a failure of its own.
C34_TimeoutErrorDistinct ==
    (sagaOutcome = "raised" /\ sagaFailure.cause = "timeout") =>
        LET err == SagaError(sagaRaised, "timeout", "")
        IN /\ err.type = "TimeoutError"
           /\ \A text \in ErrorTexts : err # SagaError(sagaRaised, "raise", text)

\* Steps whose completed event was appended by an earlier execute() call: the
\* entries of completed_steps older than those of the current call
CompletedBefore ==
    {completed_steps[i] : i \in 1..(Len(completed_steps) - Len(sagaCompleted))}

\* C35: the saga event log only grows, and in it a completed event directly
\* follows the started event of its step, a started event is followed by another
\* started event only through its completed event, and a compensated or
\* compensation_failed event comes after the completed event of its step.
C35_EventLogOrdered ==
    /\ [][\/ /\ eventsBefore' = eventsBefore
             /\ Len(eventLog') >= Len(eventLog)
             /\ SubSeq(eventLog', 1, Len(eventLog)) = eventLog
          \/ /\ eventsBefore' = eventsBefore + Len(eventLog)
             /\ eventLog' = <<>>]_vars
    /\ [](\A i \in 1..Len(eventLog) :
            LET e == eventLog[i]
            IN /\ e.type = "SagaStepCompleted" =>
                     i > 1 /\ eventLog[i - 1] = Event("SagaStepStarted", e.step)
               /\ e.type = "SagaStepStarted" =>
                     /\ \A j \in 1..(i - 1) :
                           eventLog[j].type \in {"SagaStepStarted", "SagaStepCompleted"}
                     /\ (i > 1 => eventLog[i - 1].type = "SagaStepCompleted")
               /\ e.type \in {"SagaStepCompensated", "SagaCompensationFailed"} =>
                     \/ \E j \in 1..(i - 1) : eventLog[j] = Event("SagaStepCompleted", e.step)
                     \/ e.step \in CompletedBefore)

\* Two steps completed, the third failed, both completed steps have their
\* compensation event
C35_Witness ==
    /\ Len(eventLog) = 7
    /\ eventLog[4] = Event("SagaStepCompleted", 2)
    /\ eventLog[5] = Event("SagaStepStarted", 3)
    /\ eventLog[6].step = 2 /\ eventLog[7].step = 1

\* C40: repeated execute() calls on one orchestrator. The steps a rollback
\* compensates are steps whose action completed during the failing call, each
\* at most once, and never the step whose action failed.
C40_CompensatesOnlyThisCall ==
    \A i \in 1..Len(compensations) :
        /\ \E j \in 1..Len(sagaCompleted) : sagaCompleted[j] = compensations[i]
        /\ compensations[i] # sagaFailure.step
        /\ \A j \in 1..Len(compensations) : compensations[j] = compensations[i] => j = i

====
